---- MODULE Spec2Model ----
(***************************************************************************)
(* A model of parliament-interests-mcp: the GET-with-retry primitive of    *)
(* the upstream clients, the debate flattening pipeline behind get_debate, *)
(* the validation of document-filter expressions, the tool handlers, the   *)
(* background indexing of debates and the request and response schemas.    *)
(*                                                                         *)
(* The specifications share the module, one per component:                 *)
(*   SpecRetry   concurrent calls of _make_request under tenacity's retry  *)
(*   SpecDebate  one get_debate call: fetch, flatten, add, return          *)
(*   SpecFilter  WhereDocument validation of one input expression          *)
(*   SpecTool    one tool invocation on either server: client              *)
(*               construction, argument validation, the handler            *)
(*   SpecIndex   get_member_contribution_summary and its background task   *)
(*   SpecSchema  the before-validators of the schemas on one field value   *)
(*   SpecEnvelope  a client method's validation of one paginated response  *)
(*   SpecOverlap   two indexings of debates, by tasks or get_debate calls  *)
(*   SpecIndexFair is SpecIndex with the event loop's fairness.            *)
(* Each leaves the variables of the other components at their idle value.  *)
(*                                                                         *)
(* Optional values (Python's X | None) are sequences of length <= 1:       *)
(* None is <<>> and a present value v is <<v>>.                            *)
(***************************************************************************)
EXTENDS Integers, Sequences, FiniteSets, TLC

VARIABLES
    rq_pc,           \* per call of _make_request: "get", "sleep", "returned", "raised";
                     \* then of the client method: "method_returned", "method_raised"
    attempt_number,  \* per call: tenacity's retry_state.attempt_number
    rq_trace,        \* per call: the events of the call, in order
    rq_result,       \* per call: what the call returned or raised
    gd_pc,           \* get_debate: "await", "done", "raised"
    hansard,         \* the Debate that client.get_debate normalizes from upstream
    result,          \* get_debate's local `result`
    documents,       \* what loader.debate_to_documents returned or raised
    vectorstore,     \* the documents handed to vectorstore.add_documents, in order
    response,        \* what get_debate returned to its caller
    wd_input,        \* the raw where_document expression given to WhereDocument
    wd_result,       \* what WhereDocument validation made of it
    co_env_key,      \* the COMPANY_API_KEY of the companies server's environment
    co_client,       \* the module-level CompanyApiClient, once constructed
    tl_pc,           \* the invocation: "idle", "import", "serving", "down", "handler",
                     \*                 "rejected", "returned", "raised"
    tl_tool,         \* the tool invoked
    tl_args,         \* its raw arguments
    tl_parsed,       \* what argument validation made of them
    tl_gets,         \* the upstream GET attempts of the invocation, in order
    tl_store,        \* the vector-store operations of the invocation, in order
    tl_result,       \* what the invocation returned or raised
    ix_pc,           \* get_member_contribution_summary: "idle", "await", "returned", "raised"
    ix_result,       \* what it returned to its caller
    ix_task,         \* the background task _update_vector_store
    ix_log,          \* the log records of the tool and the task, in order
    ix_store,        \* the documents the task added to the vector store
    sv_input,        \* a schema, one of its fields and a raw value for it
    sv_output,       \* what the field's before-validators and parsing made of it
    en_body,         \* an upstream response body given to a paginated response schema
    en_envelope,     \* what the client method made of it (returned or raised)
    ov_tasks,        \* per indexing (background task or get_debate call): its
                     \* debate ids, the position in them and whether a fetch is awaited
    ov_adds          \* the vectorstore.add_documents invocations, in order

retry_vars  == <<rq_pc, attempt_number, rq_trace, rq_result>>
debate_vars == <<gd_pc, hansard, result, documents, vectorstore, response>>
filter_vars == <<wd_input, wd_result>>
tool_vars   == <<co_env_key, co_client, tl_pc, tl_tool, tl_args, tl_parsed,
                 tl_gets, tl_store, tl_result>>
index_vars  == <<ix_pc, ix_result, ix_task, ix_log, ix_store>>
schema_vars == <<sv_input, sv_output>>
envelope_vars == <<en_body, en_envelope>>
overlap_vars == <<ov_tasks, ov_adds>>
vars        == <<retry_vars, debate_vars, filter_vars, tool_vars, index_vars,
                 schema_vars, envelope_vars, overlap_vars>>

None == <<>>
Some(v) == <<v>>
Max(a, b) == IF a >= b THEN a ELSE b
Min(a, b) == IF a <= b THEN a ELSE b

(***************************************************************************)
(* PART 1.  _make_request under @retry(stop_after_attempt(3),              *)
(* retry_if_exception_type((TimeoutException, ConnectError)),              *)
(* wait_exponential(multiplier=1, min=2, max=8), before_sleep_log).        *)
(***************************************************************************)

\* Concurrent calls of _make_request on one client (a bound of the model).
NumCalls == 2
Calls == 1..NumCalls

\* The decorator's parameters.
MaxAttempts == 3
WaitMultiplier == 1
WaitMin == 2
WaitMax == 8

\* What one client.get(...) can do: raise a transport exception, or deliver a
\* response with a status code and a body that is JSON or is not.
TransportExceptions == {"TimeoutException", "ConnectError", "ReadError"}
StatusCodes == {200, 400, 503}
Bodies == {"json", "text"}
TransportOutcomes ==
    [t : TransportExceptions, status : {0}, body : {""}]
        \cup [t : {"response"}, status : StatusCodes, body : Bodies]

\* httpx.Response.is_success / raise_for_status: only 2xx passes.
IsSuccess(status) == status \div 100 = 2

\* response.json(): a body that is not JSON raises JSONDecodeError.
IsJson(body) == body = "json"

\* The exception (or "" for a normal return) that one execution of the body of
\* _make_request ends with, given what the transport did.
AttemptException(o) ==
    IF o.t # "response" THEN o.t
    ELSE IF ~IsSuccess(o.status) THEN "HTTPStatusError"
    ELSE IF ~IsJson(o.body) THEN "JSONDecodeError"
    ELSE ""

\* retry_if_exception_type((httpx.TimeoutException, httpx.ConnectError))
RetryOnAnyException(exc) == exc # ""
RetryOnDecodeErrorToo(exc) ==
    exc \in {"TimeoutException", "ConnectError", "JSONDecodeError"}
retry_if_exception_type(exc) == exc \in {"TimeoutException", "ConnectError"}

\* stop_after_attempt(3): stop once attempt_number has reached the maximum.
StopAfterOneMore(n) == n > MaxAttempts
StopOnAnyCallsCount(n) == \E d \in Calls : attempt_number[d] >= MaxAttempts
stop_after_attempt(n) == n >= MaxAttempts

\* wait_exponential(multiplier=1, min=2, max=8) as tenacity computes it from
\* the number of the attempt that just failed (exp_base is tenacity's 2).
wait_exponential(n) ==
    Max(Max(0, WaitMin), Min(WaitMultiplier * 2 ^ (n - 1), WaitMax))

Event(ev, arg) == [ev |-> ev, arg |-> arg]

\* before_sleep_log(logger, logging.WARNING): called by tenacity once it has
\* decided to retry and computed the delay, before it sleeps; it adds one
\* warning record, which names the delay.
BeforeSleepSilent(trace, delay) == trace
before_sleep_log(trace, delay) == Append(trace, Event("log_warning", delay))
Pending == [kind |-> "pending", status |-> 0, body |-> ""]

\* The state of each component while no call of it is in progress.
DebateIdle ==
    /\ gd_pc = "idle"
    /\ hansard = None
    /\ result = None
    /\ documents = None
    /\ vectorstore = <<>>
    /\ response = None

FilterIdle ==
    /\ wd_input = None
    /\ wd_result = None

RetryIdle ==
    /\ rq_pc = [c \in Calls |-> "idle"]
    /\ attempt_number = [c \in Calls |-> 0]
    /\ rq_trace = [c \in Calls |-> <<>>]
    /\ rq_result = [c \in Calls |-> Pending]

ToolIdle ==
    /\ co_env_key = None
    /\ co_client = None
    /\ tl_pc = "idle"
    /\ tl_tool = ""
    /\ tl_args = None
    /\ tl_parsed = None
    /\ tl_gets = <<>>
    /\ tl_store = <<>>
    /\ tl_result = None

IndexIdle ==
    /\ ix_pc = "idle"
    /\ ix_result = None
    /\ ix_task = None
    /\ ix_log = <<>>
    /\ ix_store = <<>>

SchemaIdle ==
    /\ sv_input = None
    /\ sv_output = None

EnvelopeIdle ==
    /\ en_body = None
    /\ en_envelope = None

OverlapIdle ==
    /\ ov_tasks = <<>>
    /\ ov_adds = <<>>

InitRetry ==
    /\ rq_pc = [c \in Calls |-> "get"]
    /\ attempt_number = [c \in Calls |-> 1]
    /\ rq_trace = [c \in Calls |-> <<>>]
    /\ rq_result = [c \in Calls |-> Pending]
    /\ DebateIdle
    /\ FilterIdle
    /\ ToolIdle
    /\ IndexIdle
    /\ SchemaIdle
    /\ EnvelopeIdle
    /\ OverlapIdle

\* One attempt: the GET, then either the return of the parsed body, or the
\* exception and tenacity's decision on it (re-raise, RetryError, or warn and
\* go to sleep).  Nothing in this chain suspends, so it is one step.
Attempt(c) ==
    /\ rq_pc[c] = "get"
    /\ \E o \in TransportOutcomes :
        LET exc == AttemptException(o)
            got == Append(rq_trace[c], Event("get", attempt_number[c]))
        IN
        IF exc = "" THEN
            /\ rq_pc' = [rq_pc EXCEPT ![c] = "returned"]
            /\ rq_trace' = [rq_trace EXCEPT ![c] = Append(got, Event("ok", o.status))]
            /\ rq_result' = [rq_result EXCEPT ![c] =
                    [kind |-> "returned", status |-> o.status, body |-> o.body]]
            /\ UNCHANGED attempt_number
        ELSE IF ~retry_if_exception_type(exc) THEN
            /\ rq_pc' = [rq_pc EXCEPT ![c] = "raised"]
            /\ rq_trace' = [rq_trace EXCEPT ![c] =
                    IF exc = "HTTPStatusError"
                    THEN got \o <<Event("HTTPStatusError", o.status),
                                  Event("log_error", o.status)>>
                    ELSE Append(got, Event(exc, o.status))]
            /\ rq_result' = [rq_result EXCEPT ![c] =
                    [kind |-> exc, status |-> o.status, body |-> o.body]]
            /\ UNCHANGED attempt_number
        ELSE IF stop_after_attempt(attempt_number[c]) THEN
            /\ rq_pc' = [rq_pc EXCEPT ![c] = "raised"]
            /\ rq_trace' = [rq_trace EXCEPT ![c] = Append(got, Event(exc, 0))]
            /\ rq_result' = [rq_result EXCEPT ![c] =
                    [kind |-> "RetryError", status |-> 0, body |-> ""]]
            /\ UNCHANGED attempt_number
        ELSE
            /\ rq_pc' = [rq_pc EXCEPT ![c] = "sleep"]
            /\ rq_trace' = [rq_trace EXCEPT ![c] =
                    before_sleep_log(Append(got, Event(exc, 0)),
                                     wait_exponential(attempt_number[c]))]
            /\ attempt_number' = [attempt_number EXCEPT ![c] = @ + 1]
            /\ UNCHANGED rq_result

\* The backoff sleep: the delay is the one announced by the warning before it.
Sleep(c) ==
    /\ rq_pc[c] = "sleep"
    /\ rq_pc' = [rq_pc EXCEPT ![c] = "get"]
    /\ rq_trace' = [rq_trace EXCEPT ![c] =
            Append(@, Event("sleep", rq_trace[c][Len(rq_trace[c])].arg))]
    /\ UNCHANGED <<attempt_number, rq_result>>

\* The client method that awaited _make_request (get_interests, get_members,
\* search_companies, ...): `return Model.model_validate(response)` on the
\* parsed body, outside the retry decorator.  The body fits the response
\* schema or it does not, and then ValidationError leaves the method.
ModelValidate(c) ==
    /\ rq_pc[c] = "returned"
    /\ \E fits \in BOOLEAN :
        /\ rq_pc' = [rq_pc EXCEPT ![c] =
                IF fits THEN "method_returned" ELSE "method_raised"]
        /\ rq_trace' = [rq_trace EXCEPT ![c] =
                Append(@, Event(IF fits THEN "model" ELSE "ValidationError",
                                rq_result[c].status))]
    /\ UNCHANGED <<attempt_number, rq_result>>

NextRetry ==
    \/ \E c \in Calls : Attempt(c) /\ UNCHANGED <<debate_vars, filter_vars, tool_vars, index_vars, schema_vars, envelope_vars, overlap_vars>>
    \/ \E c \in Calls : Sleep(c) /\ UNCHANGED <<debate_vars, filter_vars, tool_vars, index_vars, schema_vars, envelope_vars, overlap_vars>>
    \/ \E c \in Calls : ModelValidate(c) /\ UNCHANGED <<debate_vars, filter_vars, tool_vars, index_vars, schema_vars, envelope_vars, overlap_vars>>

SpecRetry == InitRetry /\ [][NextRetry]_vars

\* ---- what a call's trace says ----
EventsOf(c, evs) == SelectSeq(rq_trace[c], LAMBDA e : e.ev \in evs)
Gets(c) == Len(EventsOf(c, {"get"}))
Sleeps(c) ==
    [i \in 1..Len(EventsOf(c, {"sleep"})) |-> EventsOf(c, {"sleep"})[i].arg]
Retryable == {"TimeoutException", "ConnectError"}
\* how each attempt ended (its exception, or "ok"), one entry per GET, in order
AttemptEnds(c) ==
    EventsOf(c, TransportExceptions \cup {"HTTPStatusError", "JSONDecodeError", "ok"})

\* C1: a call makes at most 3 GET attempts; a call that returned did so after k
\* retryable failures (timeout or connect failure), k <= 2, followed by one
\* successful attempt, with exactly k sleeps, and returned that attempt's body;
\* a call whose 3 attempts all failed retryably has raised RetryError, and
\* RetryError is raised in no other case.
C1_BoundedRetry ==
    \A c \in Calls :
        LET ends == AttemptEnds(c)
            k == Len(Sleeps(c))
        IN
        /\ Gets(c) <= MaxAttempts
        /\ Len(ends) <= Gets(c)
        /\ rq_pc[c] = "returned" =>
            /\ k <= MaxAttempts - 1
            /\ Gets(c) = k + 1
            /\ \A i \in 1..k : ends[i].ev \in Retryable
            /\ ends[k + 1].ev = "ok"
            /\ rq_result[c].kind = "returned"
            /\ IsSuccess(rq_result[c].status) /\ IsJson(rq_result[c].body)
        /\ (Len(ends) = MaxAttempts /\ \A i \in 1..MaxAttempts : ends[i].ev \in Retryable)
            => (rq_pc[c] = "raised" /\ rq_result[c].kind = "RetryError")
        /\ rq_result[c].kind = "RetryError" =>
            /\ rq_pc[c] = "raised"
            /\ Gets(c) = MaxAttempts
            /\ k = MaxAttempts - 1
            /\ \A i \in 1..MaxAttempts : ends[i].ev \in Retryable

\* C1 witness: one call returned after two retries while another exhausted its
\* three attempts.
C1_Witness ==
    \E c, d \in Calls :
        /\ rq_pc[c] = "returned" /\ Gets(c) = 3 /\ Len(Sleeps(c)) = 2
        /\ rq_result[d].kind = "RetryError" /\ Gets(d) = 3

\* C2: an attempt that ends in an HTTP error (a non-2xx response) is the call's
\* last event of any kind but the error log: the call has raised HTTPStatusError
\* with that status, no GET and no sleep follows it, and when it was the first
\* attempt there was exactly one GET and no sleep at all.
C2_NoRetryOnHttpError ==
    \A c \in Calls :
        \A i \in 1..Len(AttemptEnds(c)) :
            AttemptEnds(c)[i].ev = "HTTPStatusError" =>
                /\ i = Len(AttemptEnds(c))
                /\ Gets(c) = i
                /\ Len(Sleeps(c)) = i - 1
                /\ rq_pc[c] = "raised"
                /\ rq_result[c].kind = "HTTPStatusError"
                /\ rq_result[c].status = AttemptEnds(c)[i].arg
                /\ ~IsSuccess(rq_result[c].status)
                /\ rq_trace[c][Len(rq_trace[c])].ev = "log_error"

\* C2 witness: one call hit HTTP 400 on its first attempt, another HTTP 503 on
\* its third attempt after two timeouts.
C2_Witness ==
    \E c, d \in Calls :
        /\ rq_result[c].kind = "HTTPStatusError" /\ rq_result[c].status = 400
        /\ Gets(c) = 1 /\ Sleeps(c) = <<>>
        /\ rq_result[d].kind = "HTTPStatusError" /\ rq_result[d].status = 503
        /\ Gets(d) = 3

\* C3 (the claim as stated): the delay slept before retry n starts at 2 s and
\* doubles with each retry, capped at 8 s: 2 s before the 1st retry, 4 s before
\* the 2nd.
C3_DoublingBackoff ==
    \A c \in Calls :
        \A n \in 1..Len(Sleeps(c)) : Sleeps(c)[n] = Min(2 ^ n, WaitMax)

\* What the decorator's wait_exponential gives instead: max(2, min(2^(n-1), 8)),
\* that is 2 s before the 1st retry and 2 s again before the 2nd.
C3_ActualBackoff ==
    \A c \in Calls :
        \A n \in 1..Len(Sleeps(c)) :
            Sleeps(c)[n] = Max(WaitMin, Min(2 ^ (n - 1), WaitMax))

Warnings(c) == Len(EventsOf(c, {"log_warning"}))
Finished(c) == rq_pc[c] \notin {"get", "sleep"}

\* C23: each retry is logged at warning level before the backoff sleep.  A
\* finished call has one warning less than it made attempts: 2 when it
\* exhausted its 3 attempts, 0 when its first attempt succeeded or hit an HTTP
\* error.  Every warning follows a retryable failure at once and is followed
\* by the sleep and then by the attempt it announces; no sleep and no attempt
\* after the first comes without it.
C23_RetryLogged ==
    \A c \in Calls :
        LET trace == rq_trace[c] IN
        /\ Finished(c) => Warnings(c) = Gets(c) - 1
        /\ ~Finished(c) => Warnings(c) = attempt_number[c] - 1
        /\ rq_result[c].kind = "RetryError" => Warnings(c) = 2
        /\ (Finished(c) /\ AttemptEnds(c)[1].ev \in {"ok", "HTTPStatusError"})
               => Warnings(c) = 0
        /\ \A p \in 1..Len(trace) :
            /\ trace[p].ev = "log_warning" =>
                /\ trace[p - 1].ev \in Retryable
                /\ p < Len(trace) => trace[p + 1] = Event("sleep", trace[p].arg)
                /\ p + 1 < Len(trace) => trace[p + 2].ev = "get"
            /\ trace[p].ev = "sleep" => trace[p - 1].ev = "log_warning"
            /\ (trace[p].ev = "get" /\ trace[p].arg > 1) =>
                /\ trace[p - 2].ev = "log_warning"
                /\ Len(SelectSeq(SubSeq(trace, 1, p), LAMBDA e : e.ev = "log_warning"))
                       = trace[p].arg - 1

\* C23 witness: one call exhausted its three attempts with two warnings, each
\* between the failure and the sleep, while another succeeded at once with
\* none.
C23_Witness ==
    \E c, d \in Calls :
        /\ rq_result[c].kind = "RetryError" /\ Gets(c) = 3 /\ Warnings(c) = 2
        /\ rq_trace[c][3].ev = "log_warning" /\ rq_trace[c][4].ev = "sleep"
        /\ rq_trace[c][5] = Event("get", 2)
        /\ Finished(d) /\ Gets(d) = 1 /\ AttemptEnds(d)[1].ev = "ok" /\ Warnings(d) = 0

\* The attempt counter of call c is what c's own events make it, and c has
\* given up on a retryable failure only once its own attempts were used up.
OwnBudget(c) ==
    /\ Gets(c) <= MaxAttempts
    /\ attempt_number[c] = 1 + Len(Sleeps(c)) + (IF rq_pc[c] = "sleep" THEN 1 ELSE 0)
    /\ Sleeps(c) = [n \in 1..Len(Sleeps(c)) |-> wait_exponential(n)]
    /\ (Finished(c) /\ AttemptEnds(c)[Len(AttemptEnds(c))].ev \in Retryable)
           => Gets(c) = MaxAttempts
    /\ rq_result[c].kind = "RetryError" =>
           \A i \in 1..MaxAttempts : AttemptEnds(c)[i].ev \in Retryable

\* C28: retry budgets are per call.  With calls of _make_request running
\* concurrently on one client, under every interleaving, each call makes at
\* most 3 attempts, counts only its own attempts and sleeps its own backoff
\* sequence, gives up on a timeout only after 3 attempts of its own, and a step
\* of one call leaves the counter, the events and the result of every other
\* call as they were.
C28_PerCallBudget ==
    /\ [](\A c \in Calls : OwnBudget(c))
    /\ [][\E c \in Calls : \A d \in Calls \ {c} :
            /\ attempt_number'[d] = attempt_number[d]
            /\ rq_pc'[d] = rq_pc[d]
            /\ rq_trace'[d] = rq_trace[d]
            /\ rq_result'[d] = rq_result[d]]_vars

\* C28 witness: one call has exhausted its three attempts on timeouts while
\* another, having failed once, is in its first backoff with both remaining
\* attempts ahead of it.
C28_Witness ==
    \E c, d \in Calls :
        /\ rq_result[c].kind = "RetryError" /\ Gets(c) = MaxAttempts
        /\ rq_pc[d] = "sleep" /\ attempt_number[d] = 2 /\ Gets(d) = 1

\* C29: only a timeout or a connect failure triggers a retry.  An attempt that
\* got a 2xx response whose body is not JSON ends the call with
\* JSONDecodeError, and one whose parsed body does not fit the response schema
\* ends the client method with ValidationError: no GET and no sleep follows,
\* and when it was the first attempt there was exactly one GET and no sleep.
C29_NoRetryOnBadBody ==
    \A c \in Calls :
        LET ends == AttemptEnds(c)
            trace == rq_trace[c]
        IN
        /\ \A i \in 1..Len(ends) :
            ends[i].ev = "JSONDecodeError" =>
                /\ i = Len(ends)
                /\ Gets(c) = i
                /\ Len(Sleeps(c)) = i - 1
                /\ rq_pc[c] = "raised"
                /\ rq_result[c].kind = "JSONDecodeError"
                /\ IsSuccess(rq_result[c].status)
                /\ trace[Len(trace)].ev = "JSONDecodeError"
        /\ \A p \in 1..Len(trace) :
            /\ trace[p].ev = "ValidationError" =>
                /\ p = Len(trace)
                /\ trace[p - 1].ev = "ok" /\ IsSuccess(trace[p - 1].arg)
                /\ rq_pc[c] = "method_raised"
                /\ Gets(c) = Len(ends)
                /\ Len(Sleeps(c)) = Gets(c) - 1
            /\ trace[p].ev = "sleep" =>
                ends[Len(SelectSeq(SubSeq(trace, 1, p), LAMBDA e : e.ev = "get"))].ev
                    \in Retryable
        /\ rq_pc[c] = "method_raised" => trace[Len(trace)].ev = "ValidationError"
        /\ (Finished(c)
                /\ (\/ ends[1].ev = "JSONDecodeError"
                    \/ (Len(trace) >= 3 /\ trace[3].ev = "ValidationError")))
               => (Gets(c) = 1 /\ Sleeps(c) = <<>>)

\* C29 witness: one call got a 2xx body that is not JSON on its first attempt,
\* another a 2xx JSON body that the response schema rejected; each made one
\* GET and slept never.
C29_Witness ==
    \E c, d \in Calls :
        /\ rq_result[c].kind = "JSONDecodeError" /\ rq_result[c].status = 200
        /\ Gets(c) = 1 /\ Sleeps(c) = <<>>
        /\ rq_pc[d] = "method_raised" /\ rq_trace[d][3].ev = "ValidationError"
        /\ Gets(d) = 1 /\ Sleeps(d) = <<>>

(***************************************************************************)
(* PART 2.  The debate schemas, DebateLoader.debate_to_documents and the   *)
(* get_debate tool.                                                        *)
(*                                                                         *)
(* A pydantic model is a record over its Python field names; every field   *)
(* value is optional-encoded.  Of the scalar fields that no other schema   *)
(* shares, the model keeps title and volume_no (DebateOverview) and        *)
(* attributed_to (DebateItem); the remaining ones are handled by the same  *)
(* code in the same way.                                                   *)
(***************************************************************************)

\* Bounds of the debate trees.  Two families of trees are drawn: wide ones, of
\* at most MaxNodes debates, whose overviews may be absent and whose items take
\* every variation of ItemInputs; and deep ones, of at most MaxDeepNodes
\* debates, all with an overview, whose items are fully populated or lack the
\* member id.  MaxItems bounds the items of a whole tree in both.
MaxNodes == 2
MaxDeepNodes == 3
MaxItems == 2

OverviewFields == {"id", "title", "hrs_tag", "volume_no"}
ItemFields == {"item_id", "member_id", "value", "hrs_tag", "attributed_to"}

\* Field(alias=...) of DebateOverview and DebateItem; the three fields that
\* DebateDocumentMetadata adds have no alias.
FieldAlias ==
    [id |-> "Id", title |-> "Title", hrs_tag |-> "HRSTag", volume_no |-> "VolumeNo",
     item_id |-> "ItemId", member_id |-> "MemberId", value |-> "Value",
     attributed_to |-> "AttributedTo",
     items |-> "items", child_debates |-> "child_debates"]

\* The JSON type each wire key serializes to in mode='json'.
JsonType ==
    [Id |-> "int", Title |-> "str", HRSTag |-> "str", VolumeNo |-> "int",
     ItemId |-> "int", MemberId |-> "int", Value |-> "str", AttributedTo |-> "str",
     items |-> "null", child_debates |-> "null"]

\* BaseAPIModel.str_none_to_none, the before-validator of every field:
\* `None if value == "None" else value`, for a value of the given JSON type
\* (only a str can equal "None").
str_none_to_none(type, v) == IF type = "str" /\ v = Some("None") THEN None ELSE v

\* model_dump(exclude=..., by_alias=True): every field but the excluded ones,
\* None values included, under the field's alias.
model_dump_by_alias(obj, exclude) ==
    LET names == DOMAIN obj \ exclude IN
    [a \in {FieldAlias[n] : n \in names} |->
        obj[CHOOSE n \in names : FieldAlias[n] = a]]

\* {**a, **b}: the keys of both, b's value where both have the key.
MergeOverviewWins(a, b) ==
    [k \in DOMAIN a \cup DOMAIN b |-> IF k \in DOMAIN a THEN a[k] ELSE b[k]]
DictMerge(a, b) ==
    [k \in DOMAIN a \cup DOMAIN b |-> IF k \in DOMAIN b THEN b[k] ELSE a[k]]

\* DebateDocumentMetadata(DebateOverview, DebateItem): the fields of both
\* bases.  Where both declare a field (hrs_tag) the declaration of the first
\* base, DebateOverview, is the one in force: hrs_tag is a required str.
MetadataFields == OverviewFields \cup ItemFields \cup {"items", "child_debates"}
MetadataRequired == {"id", "title", "hrs_tag"}
MetadataExcluded == {"items", "child_debates", "value"}

\* cls(**kwargs): each field is read under its alias (or, populate_by_name,
\* its name), passed through str_none_to_none, defaulted to None when absent;
\* a required field left None makes the construction fail.
MetadataValidate(kwargs) ==
    LET raw(n) == IF FieldAlias[n] \in DOMAIN kwargs THEN kwargs[FieldAlias[n]]
                  ELSE IF n \in DOMAIN kwargs THEN kwargs[n]
                  ELSE None
        obj == [n \in MetadataFields |-> str_none_to_none(JsonType[FieldAlias[n]], raw(n))]
    IN
    IF \E n \in MetadataRequired : obj[n] = None
    THEN [exc |-> "ValidationError", obj |-> None]
    ELSE [exc |-> "", obj |-> obj]

\* DebateDocumentMetadata.from_overview_and_item, for an overview that is
\* present.
from_overview_and_item(overview, item) ==
    MetadataValidate(
        DictMerge(model_dump_by_alias(overview, {"items", "child_debates"}),
                  model_dump_by_alias(item, {"value"})))

\* DebateDocumentMetadata.to_dict: model_dump(mode='json', by_alias=True,
\* exclude_none=True), without the fields declared exclude=True.
to_dict(m) ==
    LET names == {n \in MetadataFields \ MetadataExcluded : m[n] # None} IN
    [a \in {FieldAlias[n] : n \in names} |->
        m[CHOOSE n \in names : FieldAlias[n] = a][1]]

\* Python's str() of an optional integer inside an f-string.
PyStr(v) == IF v = None THEN "None" ELSE ToString(v[1])

\* id=f"{debate.overview.id}-{item.item_id}"
DocumentIdItemFirst(overview, item) ==
    PyStr(item.item_id) \o "-" \o PyStr(overview.id)
DocumentId(overview, item) ==
    PyStr(overview.id) \o "-" \o PyStr(item.item_id)

\* `if item.value and item.member_id`: Python truthiness of an optional str
\* and of an optional int.
ItemIncluded(item) ==
    /\ item.value # None /\ item.value # Some("")
    /\ item.member_id # None /\ item.member_id # Some(0)

\* langchain's filter_complex_metadata: every document is kept, in order, with
\* its metadata restricted to the values that are str, bool, int or float.
AllowedTypes == {"str", "bool", "int", "float"}
FilterFirstDocumentOnly(docs) ==
    IF docs = <<>> THEN <<>>
    ELSE <<[docs[1] EXCEPT !.metadata =
              [k \in {x \in DOMAIN @ : JsonType[x] \in AllowedTypes} |-> @[k]]]>>
filter_complex_metadata(docs) ==
    [i \in 1..Len(docs) |->
        [docs[i] EXCEPT !.metadata =
            [k \in {x \in DOMAIN @ : JsonType[x] \in AllowedTypes} |-> @[k]]]]

Returned(docs) == [exc |-> "", docs |-> docs]
Raised(exc) == [exc |-> exc, docs |-> <<>>]

\* DebateLoader.debate_to_documents: the loop over debate.items (from item i
\* on, acc holding the documents so far), the loop over debate.child_debates,
\* and the filter on the way out.  An exception ends the call at once.
RECURSIVE debate_to_documents(_), ItemsLoop(_, _, _), ChildrenLoop(_, _, _)
ItemsLoop(debate, i, acc) ==
    IF i > Len(debate.items) THEN Returned(acc)
    ELSE LET item == debate.items[i] IN
         IF ~ItemIncluded(item) THEN ItemsLoop(debate, i + 1, acc)
         ELSE IF debate.overview = None THEN Raised("AttributeError")
         ELSE LET overview == debate.overview[1]
                  metadata == from_overview_and_item(overview, item)
              IN
              IF metadata.exc # "" THEN Raised(metadata.exc)
              ELSE ItemsLoop(debate, i + 1,
                       Append(acc, [id |-> DocumentId(overview, item),
                                    page_content |-> item.value[1],
                                    metadata |-> to_dict(metadata.obj)]))
ChildrenLoop(debate, j, acc) ==
    IF j > Len(debate.child_debates) THEN Returned(acc)
    ELSE LET sub == debate_to_documents(debate.child_debates[j]) IN
         IF sub.exc # "" THEN sub
         ELSE ChildrenLoop(debate, j + 1, acc \o sub.docs)
debate_to_documents(debate) ==
    LET own == ItemsLoop(debate, 1, <<>>) IN
    IF own.exc # "" THEN own
    ELSE LET all == ChildrenLoop(debate, 1, own.docs) IN
         IF all.exc # "" THEN all
         ELSE Returned(filter_complex_metadata(all.docs))

\* ---- the debates that upstream can deliver (after Debate.model_validate) ----

\* The fully populated item at position pos of its node, and the items that
\* differ from it in one field: the id, the member id, the value or the tag.
\* A deep tree (wide = FALSE) takes only the first and the one without member.
FullItem(pos) ==
    [item_id |-> Some(6 + pos), member_id |-> Some(8), value |-> Some("text"),
     hrs_tag |-> Some("hs_Item"), attributed_to |-> Some("Mr Speaker")]
ItemInputs(pos, wide) ==
    {FullItem(pos), [FullItem(pos) EXCEPT !.member_id = None]}
        \cup (IF wide
              THEN {[FullItem(pos) EXCEPT !.item_id = None],
                    [FullItem(pos) EXCEPT !.member_id = Some(0)],
                    [FullItem(pos) EXCEPT !.value = None],
                    [FullItem(pos) EXCEPT !.value = Some("")],
                    [FullItem(pos) EXCEPT !.hrs_tag = None]}
              ELSE {})

\* Debate.overview is optional; a present overview has its required fields.
OverviewInputs(id, wide) ==
    {Some([id |-> Some(id), title |-> Some("Debate"), hrs_tag |-> Some("hs_Debate"),
           volume_no |-> None])}
        \cup (IF wide THEN {None} ELSE {})

\* The item lists of length m.
ItemLists(m, wide) ==
    {s \in [1..m -> UNION {ItemInputs(p, wide) : p \in 1..m}] :
        \A p \in 1..m : s[p] \in ItemInputs(p, wide)}

\* The debates with exactly n nodes and k items whose root overview has the
\* given id, and the ordered forests of such debates under a parent: the j-th
\* child of the debate with id p has id 10 * p + j.
RECURSIVE DebatesOfSize(_, _, _, _), ForestsOfSize(_, _, _, _, _)
DebatesOfSize(n, k, id, wide) ==
    UNION {
        {[overview |-> ov, navigator |-> <<>>, items |-> its, child_debates |-> f] :
            ov \in OverviewInputs(id, wide), its \in ItemLists(m, wide),
            f \in ForestsOfSize(n - 1, k - m, id, 1, wide)}
        : m \in 0..k}
ForestsOfSize(n, k, parent, j, wide) ==
    IF n = 0 THEN (IF k = 0 THEN {<<>>} ELSE {})
    ELSE UNION {
        {<<t>> \o f : t \in DebatesOfSize(a, i, 10 * parent + j, wide),
                      f \in ForestsOfSize(n - a, k - i, parent, j + 1, wide)}
        : a \in 1..n, i \in 0..k}

\* ---- the get_debate tool ----

\* What debate_to_documents leaves of the Debate it was given: it reads the
\* tree through model_dump copies and assigns only to the metadata of the
\* Documents it built, so the tree is as before.
RECURSIVE DebateWithValuesMoved(_)
DebateWithValuesMoved(debate) ==
    [debate EXCEPT
        !.items = [i \in 1..Len(@) |->
                     IF ItemIncluded(@[i]) THEN [@[i] EXCEPT !.value = None] ELSE @[i]],
        !.child_debates = [j \in 1..Len(@) |-> DebateWithValuesMoved(@[j])]]
DebateAfterFlatten(debate) == debate

\* DebateResponse(debate=result)
DebateResponse(debate) == [debate |-> Some(debate)]

InitDebate ==
    /\ gd_pc = "await"
    /\ hansard = None
    /\ result = None
    /\ documents = None
    /\ vectorstore = <<>>
    /\ response = None
    /\ RetryIdle
    /\ FilterIdle
    /\ ToolIdle
    /\ IndexIdle
    /\ SchemaIdle
    /\ EnvelopeIdle
    /\ OverlapIdle

\* The root debate of every tree drawn has overview id 42 (when it has an
\* overview).
\* client.get_debate raises (RetryError, HTTPStatusError, a body that is not a
\* Debate): the exception leaves get_debate before anything else happened.
GetDebateFetchFails ==
    /\ gd_pc = "await"
    /\ gd_pc' = "raised"
    /\ UNCHANGED <<hansard, result, documents, vectorstore, response>>

\* client.get_debate returns the normalized Debate; from there to the return
\* nothing suspends: flatten, add_documents, DebateResponse.  An exception in
\* debate_to_documents leaves get_debate before add_documents.
GetDebate ==
    /\ gd_pc = "await"
    /\ \E wide \in BOOLEAN :
       \E n \in 1..(IF wide THEN MaxNodes ELSE MaxDeepNodes), k \in 0..MaxItems :
       \E m \in 0..k :
       \E ov \in OverviewInputs(42, wide), its \in ItemLists(m, wide),
          f \in ForestsOfSize(n - 1, k - m, 42, 1, wide) :
        LET d == [overview |-> ov, navigator |-> <<>>, items |-> its,
                  child_debates |-> f]
            flat == debate_to_documents(d)
        IN
        /\ hansard' = Some(d)
        /\ result' = Some(DebateAfterFlatten(d))
        /\ documents' = Some(flat)
        /\ IF flat.exc # ""
           THEN /\ gd_pc' = "raised"
                /\ UNCHANGED <<vectorstore, response>>
           ELSE /\ gd_pc' = "done"
                /\ vectorstore' = vectorstore \o flat.docs
                /\ response' = Some(DebateResponse(DebateAfterFlatten(d)))

NextDebate ==
    \/ GetDebateFetchFails /\ UNCHANGED <<retry_vars, filter_vars, tool_vars, index_vars, schema_vars, envelope_vars, overlap_vars>>
    \/ GetDebate /\ UNCHANGED <<retry_vars, filter_vars, tool_vars, index_vars, schema_vars, envelope_vars, overlap_vars>>

SpecDebate == InitDebate /\ [][NextDebate]_vars

\* ---- reading a debate tree and a flatten result ----

\* The rule of inclusion as specified: the value is non-empty text and the
\* member id is present, whatever integer it is.
Qualifies(item) ==
    /\ item.value # None /\ item.value # Some("")
    /\ item.member_id # None

\* The <<overview, item>> pairs of a tree in depth-first pre-order: a debate's
\* own items in their order, then each child debate's pairs in child order;
\* restricted to the items the rule keeps ("specified": Qualifies, "code": the
\* test debate_to_documents makes, "all": every item).
RECURSIVE PreOrder(_, _), PreOrderOfForest(_, _, _)
PreOrder(debate, rule) ==
    LET keep(item) == CASE rule = "specified" -> Qualifies(item)
                        [] rule = "code" -> ItemIncluded(item)
                        [] OTHER -> TRUE
        own == SelectSeq(debate.items, keep)
    IN [i \in 1..Len(own) |-> <<debate.overview, own[i]>>]
           \o PreOrderOfForest(debate.child_debates, 1, rule)
PreOrderOfForest(forest, j, rule) ==
    IF j > Len(forest) THEN <<>>
    ELSE PreOrder(forest[j], rule) \o PreOrderOfForest(forest, j + 1, rule)

\* A pair and a document are told apart by the overview id and the item id
\* (0 stands for an absent overview).
PairKey(pair) ==
    <<IF pair[1] = None THEN 0 ELSE pair[1][1].id[1], pair[2].item_id>>
DocKey(doc) ==
    <<doc.metadata["Id"],
      IF "ItemId" \in DOMAIN doc.metadata THEN Some(doc.metadata["ItemId"]) ELSE None>>
Keys(pairs) == [i \in 1..Len(pairs) |-> PairKey(pairs[i])]
DocKeys(docs) == [i \in 1..Len(docs) |-> DocKey(docs[i])]
Range(seq) == {seq[i] : i \in 1..Len(seq)}

\* Every debate of the tree has an overview.
RECURSIVE AllOverviewsPresent(_)
AllOverviewsPresent(debate) ==
    /\ debate.overview # None
    /\ \A j \in 1..Len(debate.child_debates) :
           AllOverviewsPresent(debate.child_debates[j])

\* get_debate has run debate_to_documents on the fetched tree and it returned.
Flattened == documents # None /\ documents[1].exc = ""
Docs == documents[1].docs
Tree == hansard[1]

\* C4 (the claim as stated): flatten includes an item, at any depth, if and
\* only if its value is non-empty text and its member id is present, for every
\* member id the schema admits: the documents returned are those of exactly
\* the qualifying items (stated for the trees whose debates all have an
\* overview).
C4_IncludedIffQualifies ==
    (Flattened /\ AllOverviewsPresent(Tree)) =>
        Range(DocKeys(Docs)) = Range(Keys(PreOrder(Tree, "specified")))

\* What the code does instead: a member id of 0 is treated like an absent one.
C4_IncludedIffTruthy ==
    Flattened => Range(DocKeys(Docs)) = Range(Keys(PreOrder(Tree, "code")))

\* C5 (the claim as stated): the documents returned are the qualifying items in
\* depth-first pre-order (own items in items order, then each child debate's
\* output in childDebates order), so the output is as long as the number of
\* qualifying items of the whole tree (stated for the trees whose debates all
\* have an overview).
C5_PreOrderOfQualifying ==
    (Flattened /\ AllOverviewsPresent(Tree)) =>
        /\ DocKeys(Docs) = Keys(PreOrder(Tree, "specified"))
        /\ Len(Docs) = Len(PreOrder(Tree, "specified"))

\* The order alone, over the items the code includes, is the pre-order.
C5_PreOrderOfIncluded ==
    Flattened => DocKeys(Docs) = Keys(PreOrder(Tree, "code"))

\* C6: every document returned has the id "{overviewId}-{itemId}" of an item of
\* the tree and of the overview of the debate directly containing that item,
\* has that item's value as its body and that overview's id in its metadata;
\* overview 42 with item 7 gives "42-7".
C6_DocumentId ==
    Flattened =>
        \A i \in 1..Len(Docs) :
            /\ \E pair \in Range(PreOrder(Tree, "all")) :
                /\ pair[1] # None
                /\ Docs[i].id =
                       ToString(pair[1][1].id[1]) \o "-"
                           \o (IF pair[2].item_id = None THEN "None"
                               ELSE ToString(pair[2].item_id[1]))
                /\ pair[2].value = Some(Docs[i].page_content)
                /\ DocKey(Docs[i]) = PairKey(pair)
            /\ DocKey(Docs[i]) = <<42, Some(7)>> => Docs[i].id = "42-7"

\* C6 witness: a root item and an item of a child debate were both flattened,
\* each under the id of its own debate.
C6_Witness ==
    /\ Flattened
    /\ \E i, j \in 1..Len(Docs) : Docs[i].id = "42-7" /\ Docs[j].id = "421-7"

\* C7: the metadata of the i-th document is the merge of the overview fields of
\* the i-th included item's debate with the item's fields, without the item's
\* value and without the fields that are None; the key both schemas define,
\* HRSTag, carries the item's value.
C7_MetadataMerge ==
    Flattened =>
        LET pairs == PreOrder(Tree, "code") IN
        /\ Len(pairs) = Len(Docs)
        /\ \A i \in 1..Len(Docs) :
            LET overview == pairs[i][1][1]
                item == pairs[i][2]
                md == Docs[i].metadata
            IN
            /\ md["HRSTag"] = item.hrs_tag[1]
            /\ md["Id"] = overview.id[1]
            /\ md["Title"] = overview.title[1]
            /\ md["MemberId"] = item.member_id[1]
            /\ md["AttributedTo"] = item.attributed_to[1]
            /\ item.item_id # None => md["ItemId"] = item.item_id[1]
            /\ DOMAIN md =
                   {"HRSTag", "Id", "Title", "MemberId", "AttributedTo"}
                       \cup (IF item.item_id # None THEN {"ItemId"} ELSE {})

\* C7 witness: a document was produced from an item whose tag differs from the
\* tag of its debate's overview.
C7_Witness ==
    /\ Flattened
    /\ \E pair \in Range(PreOrder(Tree, "code")) :
        /\ pair[1][1].hrs_tag = Some("hs_Debate")
        /\ pair[2].hrs_tag = Some("hs_Item")
        /\ \E i \in 1..Len(Docs) : DocKey(Docs[i]) = PairKey(pair)

\* The documents as built before any filtering: one per included item, in
\* pre-order.
Unfiltered(debate) ==
    LET pairs == PreOrder(debate, "code") IN
    [i \in 1..Len(pairs) |->
        [id |-> DocumentId(pairs[i][1][1], pairs[i][2]),
         page_content |-> pairs[i][2].value[1],
         metadata |-> to_dict(from_overview_and_item(pairs[i][1][1], pairs[i][2]).obj)]]

\* C8: every metadata value of a returned document is a store-compatible
\* scalar (no list, no mapping); the filter drops fields, never documents: the
\* documents returned are the unfiltered ones, one for one and in order, each
\* with its id, its body and the scalar part of its metadata; and filtering
\* the returned documents again changes nothing.
C8_ScalarMetadata ==
    Flattened =>
        LET raw == Unfiltered(Tree) IN
        /\ \A i \in 1..Len(Docs) : \A key \in DOMAIN Docs[i].metadata :
               JsonType[key] \in {"str", "bool", "int", "float"}
        /\ Len(Docs) = Len(raw)
        /\ \A i \in 1..Len(Docs) :
            /\ Docs[i].id = raw[i].id
            /\ Docs[i].page_content = raw[i].page_content
            /\ \A key \in DOMAIN raw[i].metadata :
                   JsonType[key] \in {"str", "bool", "int", "float"}
                       => (key \in DOMAIN Docs[i].metadata
                           /\ Docs[i].metadata[key] = raw[i].metadata[key])
        /\ filter_complex_metadata(Docs) = Docs

\* C8 witness: documents of two levels came back, so the parent's call filtered
\* documents that the child's call had filtered already.
C8_Witness ==
    /\ Flattened
    /\ Len(Docs) >= 2
    /\ \E i, j \in 1..Len(Docs) : DocKey(Docs[i])[1] # DocKey(Docs[j])[1]

\* C9: when get_debate returns, the debate in its response is the tree that
\* client.get_debate delivered, whole: overview, navigator, items and child
\* debates with their values and order.
C9_DebateUnchanged ==
    gd_pc = "done" =>
        /\ response # None
        /\ response[1].debate = hansard
        /\ result = hansard

\* C9 witness: get_debate returned a tree with a child debate after documents
\* of it went to the store.
C9_Witness ==
    /\ gd_pc = "done"
    /\ Len(vectorstore) >= 2
    /\ Tree.child_debates # <<>>
    /\ response[1].debate = hansard

\* C15 (the claim as stated): an indexing error is invisible to the caller of
\* get_debate: once the debate has been fetched, get_debate returns it, whether
\* or not flattening it (or adding its documents) failed.
C15_IndexingErrorInvisible ==
    hansard # None =>
        /\ gd_pc = "done"
        /\ response = Some(DebateResponse(hansard[1]))

\* What get_debate does instead: the exception of debate_to_documents leaves
\* get_debate, which returns nothing and adds nothing to the store.
C15_IndexingErrorPropagates ==
    hansard # None =>
        IF documents[1].exc = ""
        THEN gd_pc = "done" /\ response = Some(DebateResponse(hansard[1]))
        ELSE gd_pc = "raised" /\ response = None /\ vectorstore = <<>>

\* get_debate has run debate_to_documents on the fetched tree (it returned or
\* it raised).
FlattenRan == documents # None

\* Every item of the tree that flatten includes carries an HRS tag.
RECURSIVE IncludedItemsTagged(_)
IncludedItemsTagged(debate) ==
    /\ \A i \in 1..Len(debate.items) :
           ItemIncluded(debate.items[i]) => debate.items[i].hrs_tag # None
    /\ \A j \in 1..Len(debate.child_debates) :
           IncludedItemsTagged(debate.child_debates[j])

\* C26 (the claim as stated): for every tree whose debates all have an
\* overview, flatten completes without error and yields one document per item
\* it includes, also when such an item lacks an optional field, in particular
\* the HRS tag.
C26_OptionalFieldsAbsent ==
    (FlattenRan /\ AllOverviewsPresent(Tree)) =>
        /\ documents[1].exc = ""
        /\ Len(Docs) = Len(PreOrder(Tree, "code"))

\* C26 (what the code does): with all overviews present flatten fails exactly
\* when an included item has no HRS tag, with the ValidationError of
\* DebateDocumentMetadata, whose hrs_tag is the overview's required field and
\* whose value is the item's.
C26_FailsOnUntaggedItem ==
    (FlattenRan /\ AllOverviewsPresent(Tree)) =>
        /\ documents[1].exc = "" <=> IncludedItemsTagged(Tree)
        /\ documents[1].exc \in {"", "ValidationError"}

\* C27 (the claim as stated): for every tree, also one in which the root or a
\* child debate has no overview, flatten returns a document sequence without
\* raising (stated for the trees whose included items all carry the HRS tag).
C27_MissingOverviewTolerated ==
    (FlattenRan /\ IncludedItemsTagged(Tree)) => documents[1].exc = ""

\* The debate or one below it has no overview and an item that flatten
\* includes.
RECURSIVE IncludesUnderNoOverview(_)
IncludesUnderNoOverview(debate) ==
    \/ /\ debate.overview = None
       /\ \E i \in 1..Len(debate.items) : ItemIncluded(debate.items[i])
    \/ \E j \in 1..Len(debate.child_debates) :
           IncludesUnderNoOverview(debate.child_debates[j])

\* C27 (what the code does): flatten raises AttributeError only for, and (the
\* included items all tagged) for every, tree in which a debate without
\* overview has an included item.
C27_RaisesOnMissingOverview ==
    FlattenRan =>
        /\ documents[1].exc = "AttributeError" => IncludesUnderNoOverview(Tree)
        /\ (IncludedItemsTagged(Tree) /\ IncludesUnderNoOverview(Tree))
               => documents[1].exc = "AttributeError"

(***************************************************************************)
(* PART 3.  WhereDocument, the document-filter expression of search_debates.*)
(*                                                                         *)
(* A raw expression is a record over the four operator fields, each        *)
(* optional: contains and not_contains hold text, and_ and or_ hold a list *)
(* of raw expressions.  (The keys arrive under the alias "$contains", ...  *)
(* or, populate_by_name, under the field name.)                            *)
(***************************************************************************)

\* Bound of the filter expressions: nodes in an expression tree.
MaxFilterNodes == 2

Operators == {"contains", "not_contains", "and_", "or_"}
ContainsInputs == {None, Some("None"), Some("immigration")}
NotContainsInputs == {None, Some("question")}

\* The raw expressions with exactly n nodes; the values an and_/or_ field can
\* take with m nodes below it (absent or the empty list when m = 0); the
\* non-empty lists of expressions with m nodes in all.
RECURSIVE FilterTrees(_), ListInputs(_), FilterForests(_)
FilterTrees(n) ==
    UNION {
        {[contains |-> c, not_contains |-> nc, and_ |-> a, or_ |-> o] :
            c \in ContainsInputs, nc \in NotContainsInputs,
            a \in ListInputs(i), o \in ListInputs(n - 1 - i)}
        : i \in 0..(n - 1)}
ListInputs(m) ==
    IF m = 0 THEN {None, Some(<<>>)} ELSE {Some(f) : f \in FilterForests(m)}
FilterForests(m) ==
    UNION {
        {<<t>> \o f : t \in FilterTrees(a),
                      f \in (IF m = a THEN {<<>>} ELSE FilterForests(m - a))}
        : a \in 1..m}

NoOperatorError == "At least one operator must be specified"
MultipleOperatorsError == "Only one operator can be used per WhereDocument"

\* WhereDocument.validate_single_operator, the after-validator: the errors it
\* raises for a node whose fields have been validated.
ValidateAtMostTwo(self) ==
    LET non_none == {op \in Operators : self[op] # None} IN
    IF Cardinality(non_none) = 0 THEN {NoOperatorError}
    ELSE IF Cardinality(non_none) > 2 THEN {MultipleOperatorsError}
    ELSE {}
validate_single_operator(self) ==
    LET non_none == {op \in Operators : self[op] # None} IN
    IF Cardinality(non_none) = 0 THEN {NoOperatorError}
    ELSE IF Cardinality(non_none) > 1 THEN {MultipleOperatorsError}
    ELSE {}

\* WhereDocument.model_validate: every field goes through str_none_to_none and
\* its type's validation, which for and_/or_ validates each element as a
\* WhereDocument; the errors of all fields are collected, and only when there
\* are none does the after-validator run.
RECURSIVE WhereDocumentValidate(_)
WhereDocumentValidate(raw) ==
    LET list(v) == IF v = None THEN None
                   ELSE Some([i \in 1..Len(v[1]) |-> WhereDocumentValidate(v[1][i])])
        and_ == list(raw.and_)
        or_ == list(raw.or_)
        errs(l) == IF l = None THEN {}
                   ELSE UNION {l[1][i].errors : i \in 1..Len(l[1])}
        objs(l) == IF l = None THEN None
                   ELSE Some([i \in 1..Len(l[1]) |-> l[1][i].obj[1]])
        field_errors == errs(and_) \cup errs(or_)
    IN
    IF field_errors # {} THEN [errors |-> field_errors, obj |-> None]
    ELSE LET self == [contains |-> str_none_to_none("str", raw.contains),
                      not_contains |-> str_none_to_none("str", raw.not_contains),
                      and_ |-> objs(and_),
                      or_ |-> objs(or_)]
         IN IF validate_single_operator(self) # {}
            THEN [errors |-> validate_single_operator(self), obj |-> None]
            ELSE [errors |-> {}, obj |-> Some(self)]

InitFilter ==
    /\ wd_input = None
    /\ wd_result = None
    /\ RetryIdle
    /\ DebateIdle
    /\ ToolIdle
    /\ IndexIdle
    /\ SchemaIdle
    /\ EnvelopeIdle
    /\ OverlapIdle

\* The tool framework builds the WhereDocument of one search_debates call.
ValidateWhereDocument ==
    /\ wd_input = None
    /\ \E n \in 1..MaxFilterNodes : \E i \in 0..(n - 1) :
       \E c \in ContainsInputs, nc \in NotContainsInputs,
          a \in ListInputs(i), o \in ListInputs(n - 1 - i) :
        LET raw == [contains |-> c, not_contains |-> nc, and_ |-> a, or_ |-> o] IN
        /\ wd_input' = Some(raw)
        /\ wd_result' = Some(WhereDocumentValidate(raw))

NextFilter ==
    ValidateWhereDocument
        /\ UNCHANGED <<retry_vars, debate_vars, tool_vars, index_vars, schema_vars, envelope_vars, overlap_vars>>

SpecFilter == InitFilter /\ [][NextFilter]_vars

\* ---- reading a raw expression ----

\* The operators a raw node populates: those whose value is not absent once
\* the sentinel "None" has been normalized to absent.
Populated(raw) ==
    {op \in {"contains", "not_contains"} : raw[op] \notin {None, Some("None")}}
        \cup {op \in {"and_", "or_"} : raw[op] # None}
ChildrenOf(raw) ==
    (IF raw.and_ = None THEN <<>> ELSE raw.and_[1])
        \o (IF raw.or_ = None THEN <<>> ELSE raw.or_[1])

\* Every node of the expression populates exactly one operator.
RECURSIVE WellFormed(_)
WellFormed(raw) ==
    /\ Cardinality(Populated(raw)) = 1
    /\ \A i \in 1..Len(ChildrenOf(raw)) : WellFormed(ChildrenOf(raw)[i])

\* The nodes of an expression, itself included.
RECURSIVE NodesOf(_)
NodesOf(raw) ==
    {raw} \cup UNION {NodesOf(ChildrenOf(raw)[i]) : i \in 1..Len(ChildrenOf(raw))}

Validated == wd_result # None
Accepted == wd_result[1].errors = {}
Errors == wd_result[1].errors

\* C10 (the claim as stated): an expression is accepted iff every node of it
\* populates exactly one operator; a node with no operator is rejected with
\* the no-operator error and a node with two or more operators is rejected
\* with the multiple-operators error.
C10_SingleOperatorAsStated ==
    Validated =>
        /\ Accepted <=> WellFormed(wd_input[1])
        /\ \A node \in NodesOf(wd_input[1]) :
            /\ Cardinality(Populated(node)) = 0 => NoOperatorError \in Errors
            /\ Cardinality(Populated(node)) > 1 => MultipleOperatorsError \in Errors

\* C10 (amended): an expression is accepted iff every node of it populates
\* exactly one operator; a node with no operator is rejected with the
\* no-operator error; a node with two or more operators whose children are all
\* well-formed is rejected with the multiple-operators error, while one with
\* an ill-formed child is rejected with the errors of its children only; and
\* no error is reported that no node gives cause for.
C10_SingleOperator ==
    Validated =>
        /\ Accepted <=> WellFormed(wd_input[1])
        /\ Accepted => wd_result[1].obj # None
        /\ \A node \in NodesOf(wd_input[1]) :
            /\ Cardinality(Populated(node)) = 0 => NoOperatorError \in Errors
            /\ (/\ Cardinality(Populated(node)) > 1
                /\ \A i \in 1..Len(ChildrenOf(node)) : WellFormed(ChildrenOf(node)[i]))
                   => MultipleOperatorsError \in Errors
        /\ NoOperatorError \in Errors =>
               \E node \in NodesOf(wd_input[1]) : Cardinality(Populated(node)) = 0
        /\ MultipleOperatorsError \in Errors =>
               \E node \in NodesOf(wd_input[1]) :
                   /\ Cardinality(Populated(node)) > 1
                   /\ \A i \in 1..Len(ChildrenOf(node)) : WellFormed(ChildrenOf(node)[i])
        /\ Errors \subseteq {NoOperatorError, MultipleOperatorsError}

\* C10 witness: an and-node over one child was validated whose child populates
\* two operators: the child's error rejected the whole expression.
C10_Witness ==
    /\ Validated
    /\ Populated(wd_input[1]) = {"and_"}
    /\ Len(ChildrenOf(wd_input[1])) = 1
    /\ Cardinality(Populated(ChildrenOf(wd_input[1])[1])) = 2
    /\ Errors = {MultipleOperatorsError}

\* C11 (the claim as stated): in an accepted expression every populated and/or
\* operator holds a non-empty sequence of children; an expression with an
\* and/or operator populated by the empty sequence is rejected.
C11_NonEmptyChildren ==
    (Validated /\ Accepted) =>
        \A node \in NodesOf(wd_input[1]) : \A op \in {"and_", "or_"} :
            node[op] # None => Len(node[op][1]) >= 1

(***************************************************************************)
(* PART 4.  One tool invocation.  The server module is imported (which     *)
(* constructs its client), the tool framework validates the arguments of a *)
(* call against the handler's signature, and only then runs the handler.   *)
(***************************************************************************)

\* ---- search_debates ----

WhereAlias ==
    [contains |-> "$contains", not_contains |-> "$not_contains",
     and_ |-> "$and", or_ |-> "$or"]

\* model_dump(exclude_none=True) of a WhereDocument, nested ones included:
\* the populated fields, under their alias when by_alias and under their
\* Python name otherwise.
RECURSIVE WhereModelDump(_, _)
WhereModelDump(obj, by_alias) ==
    LET present == {op \in Operators : obj[op] # None}
        key(op) == IF by_alias THEN WhereAlias[op] ELSE op
        val(op) == IF op \in {"and_", "or_"}
                   THEN [i \in 1..Len(obj[op][1]) |->
                            WhereModelDump(obj[op][1][i], by_alias)]
                   ELSE obj[op][1]
    IN [k \in {key(op) : op \in present} |->
           val(CHOOSE op \in present : key(op) = k)]

\* WhereDocument.to_dict: model_dump(mode='json', by_alias=True, exclude_none=True)
WhereDocumentToDict(obj) == WhereModelDump(obj, TRUE)

\* The raw node populates the text operator op and gives nothing else.
OnlyTextOperator(raw, op) ==
    /\ raw[op] # None
    /\ \A other \in Operators \ {op} : raw[other] = None

\* C30 (the claim as stated): a node whose only populated operator is contains
\* (or not_contains), with any text operand, is accepted and keeps the operand
\* unchanged in its wire projection; the operand "None" gives {"$contains":
\* "None"}, not a node without operator.
C30_TextOperandKept ==
    Validated =>
        \A op \in {"contains", "not_contains"} :
            OnlyTextOperator(wd_input[1], op) =>
                /\ Accepted
                /\ WhereDocumentToDict(wd_result[1].obj[1])
                       = [k \in {WhereAlias[op]} |-> wd_input[1][op][1]]

\* C30 (what the code does): the operand is kept for every text but "None",
\* which the sentinel normalization turns into an absent operator, so that
\* the node is rejected with the no-operator error.
C30_TextOperandKeptUnlessSentinel ==
    Validated =>
        \A op \in {"contains", "not_contains"} :
            OnlyTextOperator(wd_input[1], op) =>
                IF wd_input[1][op] = Some("None")
                THEN Errors = {NoOperatorError}
                ELSE /\ Accepted
                     /\ WhereDocumentToDict(wd_result[1].obj[1])
                            = [k \in {WhereAlias[op]} |-> wd_input[1][op][1]]

\* `where_document.model_dump(exclude_none=True) if where_document else None`
SearchWhereDocumentArg(where_document) ==
    IF where_document = None THEN None
    ELSE Some(WhereModelDump(where_document[1], FALSE))

\* DebateSearchParams: the fields of DebateDocumentMetadata, every one of them
\* optional; read under the alias or the name, through str_none_to_none.
DebateSearchParamsValidate(kwargs) ==
    LET raw(n) == IF FieldAlias[n] \in DOMAIN kwargs THEN kwargs[FieldAlias[n]]
                  ELSE IF n \in DOMAIN kwargs THEN kwargs[n]
                  ELSE None
    IN [n \in MetadataFields |-> str_none_to_none(JsonType[FieldAlias[n]], raw(n))]

\* `filter.model_dump(mode='json', exclude_none=True) if filter else None`: the
\* fields that are set, under their Python name.
SearchFilterArg(filter) ==
    IF filter = None THEN None
    ELSE Some([n \in {x \in MetadataFields \ MetadataExcluded : filter[1][x] # None}
                 |-> filter[1][n][1]])

\* The arguments search_debates can be called with.  The content filter is
\* drawn together with varied other arguments when it has at most one node,
\* and alone when it is deeper.
QueryInputs == {None, Some("immigration policy")}
KInputs == {None, Some(3)}
FilterInputs ==
    {None,
     Some([MemberId |-> Some(8)]),
     Some([member_id |-> Some(8)]),
     Some([MemberId |-> Some(8), HRSTag |-> Some("hs_Item")]),
     Some([HRSTag |-> Some("None"), VolumeNo |-> Some(5)])}

MissingArgumentError == "Field required"

\* The argument model the framework derives from search_debates' signature:
\* query is required, k defaults to 5, filter and where_document default to
\* None and are validated as DebateSearchParams and WhereDocument.
SearchDebatesArgs(args) ==
    LET wd == IF args.where_document = None THEN [errors |-> {}, obj |-> None]
              ELSE WhereDocumentValidate(args.where_document[1])
        errors == (IF args.query = None THEN {MissingArgumentError} ELSE {})
                      \cup wd.errors
    IN IF errors # {} THEN [errors |-> errors, obj |-> None]
       ELSE [errors |-> {},
             obj |-> Some([query |-> args.query[1],
                           k |-> IF args.k = None THEN 5 ELSE args.k[1],
                           filter |-> IF args.filter = None THEN None
                                      ELSE Some(DebateSearchParamsValidate(args.filter[1])),
                           where_document |-> wd.obj])]

\* The framework's step of a call: the arguments are validated, and the call
\* is rejected with a tool error unless they are valid.
ValidateArguments(tool, args, parsed) ==
    /\ tl_tool' = tool
    /\ tl_args' = Some(args)
    /\ tl_parsed' = Some(parsed)
    /\ IF parsed.errors = {}
       THEN tl_pc' = "handler" /\ tl_result' = None
       ELSE tl_pc' = "rejected" /\ tl_result' = Some("ToolError")
    /\ UNCHANGED <<co_env_key, co_client, tl_gets, tl_store>>

\* The parliament server's module is imported: ParliamentAPIClient() needs no
\* credential.
ImportParliamentServer ==
    /\ tl_pc = "import"
    /\ tl_pc' = "serving"
    /\ UNCHANGED <<co_env_key, co_client, tl_tool, tl_args, tl_parsed, tl_gets,
                   tl_store, tl_result>>

CallSearchDebates ==
    /\ tl_pc = "serving" /\ co_client = None
    /\ \E wide \in BOOLEAN :
       \E query \in (IF wide THEN QueryInputs ELSE {Some("immigration policy")}),
          k \in (IF wide THEN KInputs ELSE {None}),
          f \in (IF wide THEN FilterInputs ELSE {None}),
          n \in (IF wide THEN 0..1 ELSE 2..MaxFilterNodes) :
       \E wd \in (IF n = 0 THEN {None} ELSE {Some(t) : t \in FilterTrees(n)}) :
        LET args == [query |-> query, k |-> k, filter |-> f, where_document |-> wd]
        IN ValidateArguments("search_debates", args, SearchDebatesArgs(args))

\* The handler of search_debates: one similarity_search on the vector store,
\* whose hits (or whose exception) end the call.
SearchDebates ==
    /\ tl_pc = "handler" /\ tl_tool = "search_debates"
    /\ LET a == tl_parsed[1].obj[1] IN
       tl_store' = Append(tl_store,
           [op |-> "similarity_search", query |-> a.query, k |-> a.k,
            filter |-> SearchFilterArg(a.filter),
            where_document |-> SearchWhereDocumentArg(a.where_document)])
    /\ \E ok \in BOOLEAN :
        /\ tl_pc' = IF ok THEN "returned" ELSE "raised"
        /\ tl_result' = Some(IF ok THEN "SearchDebatesResponse" ELSE "Exception")
    /\ UNCHANGED <<co_env_key, co_client, tl_tool, tl_args, tl_parsed, tl_gets>>

\* ---- the companies server's client ----

EnvKeyInputs == {None, Some(""), Some("k3y")}

\* `if not COMPANY_API_KEY`: the variable is unset, or set to the empty string.
KeyUnset(key) == key = None
KeyMissing(key) == key = None \/ key = Some("")

\* CompanyApiClient.__init__
CompanyApiClient(key) ==
    IF KeyMissing(key) THEN [exc |-> "ValueError", obj |-> None]
    ELSE [exc |-> "",
          obj |-> Some([auth |-> [username |-> key[1], password |-> ""]])]

\* The companies server's module is imported: `client = CompanyApiClient()` at
\* module level; its exception ends the import, and no tool is ever served.
ImportCompaniesServer ==
    /\ tl_pc = "import"
    /\ LET c == CompanyApiClient(co_env_key) IN
        /\ co_client' = c.obj
        /\ tl_pc' = IF c.exc = "" THEN "serving" ELSE "down"
        /\ tl_result' = IF c.exc = "" THEN None ELSE Some(c.exc)
    /\ UNCHANGED <<co_env_key, tl_tool, tl_args, tl_parsed, tl_gets, tl_store>>

\* ---- the tools that take a paged parameter object ----

\* Field(le=...) of the three page-size fields.
ItemsPerPageMax == 100
SizeMax == 5000
TakeMax == 20

CompanyTools == {"search_companies", "advanced_search_companies", "search_officers"}
ParliamentTools == {"get_interests", "get_members", "get_categories"}

\* Per tool: whether `params` may be omitted, whether the schema has the
\* required field q, the names (aliases) the page-size and offset fields are
\* sent under, the page-size maximum, and the path of the upstream endpoint.
ParamsSchema ==
    [search_companies |->
        [optional |-> FALSE, q |-> TRUE, page |-> "items_per_page",
         start |-> "start_index", le |-> ItemsPerPageMax, url |-> "/search/companies"],
     advanced_search_companies |->
        [optional |-> TRUE, q |-> FALSE, page |-> "size",
         start |-> "start_index", le |-> SizeMax, url |-> "/advanced-search/companies"],
     search_officers |->
        [optional |-> FALSE, q |-> TRUE, page |-> "items_per_page",
         start |-> "start_index", le |-> ItemsPerPageMax, url |-> "/search/officers"],
     get_interests |->
        [optional |-> TRUE, q |-> FALSE, page |-> "Take",
         start |-> "Skip", le |-> TakeMax, url |-> "/Interests"],
     get_members |->
        [optional |-> TRUE, q |-> FALSE, page |-> "Take",
         start |-> "Skip", le |-> TakeMax, url |-> "/Members/Search"],
     get_categories |->
        [optional |-> TRUE, q |-> FALSE, page |-> "Take",
         start |-> "Skip", le |-> TakeMax, url |-> "/Categories"]]

\* Field(ge=...) and Field(le=...) on an int.
GeStrict(v, bound) == v > bound
Ge(v, bound) == v >= bound
LeAny(v, bound) == TRUE
Le(v, bound) == v <= bound

\* Validation of the parameter object of a paged tool: q (where the schema
\* has it) is a required str after str_none_to_none; the page size defaults to
\* 20 and must be in 1..le; the offset defaults to 0 and must be >= 0.
ParamsValidate(tool, params) ==
    LET sch == ParamsSchema[tool]
        q == str_none_to_none("str", params.q)
        page == IF params.page = None THEN 20 ELSE params.page[1]
        start == IF params.start = None THEN 0 ELSE params.start[1]
        errors ==
            (IF sch.q /\ params.q = None THEN {MissingArgumentError} ELSE {})
            \cup (IF sch.q /\ params.q # None /\ q = None THEN {"string_type"} ELSE {})
            \cup (IF ~Ge(page, 1) THEN {"greater_than_equal"} ELSE {})
            \cup (IF ~Le(page, sch.le) THEN {"less_than_equal"} ELSE {})
            \cup (IF ~Ge(start, 0) THEN {"greater_than_equal"} ELSE {})
    IN IF errors # {} THEN [errors |-> errors, obj |-> None]
       ELSE [errors |-> {}, obj |-> Some([q |-> q, page |-> page, start |-> start])]

\* The argument model of a paged tool: `params` alone, required or defaulting
\* to None.
PagedToolArgs(tool, args) ==
    IF args.params = None
    THEN IF ParamsSchema[tool].optional THEN [errors |-> {}, obj |-> Some(None)]
         ELSE [errors |-> {MissingArgumentError}, obj |-> None]
    ELSE LET p == ParamsValidate(tool, args.params[1]) IN
         IF p.errors # {} THEN p ELSE [errors |-> {}, obj |-> Some(p.obj)]

\* The parameter objects a paged tool can be called with: the page size at
\* and around both ends of its range, the offset below, at and above zero.
ParamsInputs(tool) ==
    LET le == ParamsSchema[tool].le IN
    {[q |-> q, page |-> page, start |-> start] :
        q \in (IF ParamsSchema[tool].q THEN {None, Some("Tesla"), Some("None")}
               ELSE {None}),
        page \in {None, Some(0), Some(1), Some(le), Some(le + 1)},
        start \in {None, Some(0 - 1), Some(0), Some(7)}}

CallPagedTool(tool) ==
    /\ tl_pc = "serving"
    /\ (tool \in CompanyTools) <=> (co_client # None)
    /\ \E params \in {None} \cup {Some(p) : p \in ParamsInputs(tool)} :
        LET args == [params |-> params]
        IN ValidateArguments(tool, args, PagedToolArgs(tool, args))

\* `params.model_dump(by_alias=True, exclude_none=True) if params else None`
QueryParams(tool, params) ==
    IF params = None THEN None
    ELSE LET sch == ParamsSchema[tool]
             keys == {sch.page, sch.start} \cup (IF params[1].q # None THEN {"q"} ELSE {})
         IN Some([k \in keys |->
                    IF k = "q" THEN params[1].q[1]
                    ELSE IF k = sch.page THEN ToString(params[1].page)
                    ELSE ToString(params[1].start)])

\* The handler of a paged tool: the client method, that is one _make_request
\* (one to MaxAttempts GETs of the same request, the companies client's with
\* its Basic auth) and the validation of the body as the response model.
PagedTool(tool) ==
    /\ tl_pc = "handler" /\ tl_tool = tool
    /\ \E n \in 1..MaxAttempts :
       \E end \in {"returned", "HTTPStatusError", "RetryError", "ValidationError"} :
        /\ end = "RetryError" => n = MaxAttempts
        /\ tl_gets' = [i \in 1..n |->
               [url |-> ParamsSchema[tool].url,
                params |-> QueryParams(tool, tl_parsed[1].obj[1]),
                auth |-> IF co_client = None THEN None ELSE Some(co_client[1].auth)]]
        /\ tl_pc' = IF end = "returned" THEN "returned" ELSE "raised"
        /\ tl_result' = Some(end)
    /\ UNCHANGED <<co_env_key, co_client, tl_tool, tl_args, tl_parsed, tl_store>>

InitTool ==
    /\ co_env_key \in EnvKeyInputs
    /\ co_client = None
    /\ tl_pc = "import"
    /\ tl_tool = ""
    /\ tl_args = None
    /\ tl_parsed = None
    /\ tl_gets = <<>>
    /\ tl_store = <<>>
    /\ tl_result = None
    /\ RetryIdle
    /\ DebateIdle
    /\ FilterIdle
    /\ IndexIdle
    /\ SchemaIdle
    /\ EnvelopeIdle
    /\ OverlapIdle

NextTool ==
    \/ ImportParliamentServer
        /\ UNCHANGED <<retry_vars, debate_vars, filter_vars, index_vars, schema_vars, envelope_vars, overlap_vars>>
    \/ ImportCompaniesServer
        /\ UNCHANGED <<retry_vars, debate_vars, filter_vars, index_vars, schema_vars, envelope_vars, overlap_vars>>
    \/ CallSearchDebates
        /\ UNCHANGED <<retry_vars, debate_vars, filter_vars, index_vars, schema_vars, envelope_vars, overlap_vars>>
    \/ SearchDebates
        /\ UNCHANGED <<retry_vars, debate_vars, filter_vars, index_vars, schema_vars, envelope_vars, overlap_vars>>
    \/ \E tool \in CompanyTools \cup ParliamentTools :
        CallPagedTool(tool)
            /\ UNCHANGED <<retry_vars, debate_vars, filter_vars, index_vars, schema_vars, envelope_vars, overlap_vars>>
    \/ \E tool \in CompanyTools \cup ParliamentTools :
        PagedTool(tool)
            /\ UNCHANGED <<retry_vars, debate_vars, filter_vars, index_vars, schema_vars, envelope_vars, overlap_vars>>

SpecTool == InitTool /\ [][NextTool]_vars

\* ---- reading an invocation ----

SearchRan == tl_tool = "search_debates" /\ tl_store # <<>>

\* The wire format of a raw filter expression: at every level the populated
\* operators under their wire names $contains, $not_contains, $and, $or.
RECURSIVE WireFormat(_)
WireFormat(raw) ==
    [k \in {WhereAlias[op] : op \in Populated(raw)} |->
        LET op == CHOOSE o \in Populated(raw) : WhereAlias[o] = k IN
        IF op \in {"and_", "or_"}
        THEN [i \in 1..Len(raw[op][1]) |-> WireFormat(raw[op][1][i])]
        ELSE raw[op][1]]

\* The same expression under the Python field names contains, not_contains,
\* and_, or_.
RECURSIVE FieldNameFormat(_)
FieldNameFormat(raw) ==
    [op \in Populated(raw) |->
        IF op \in {"and_", "or_"}
        THEN [i \in 1..Len(raw[op][1]) |-> FieldNameFormat(raw[op][1][i])]
        ELSE raw[op][1]]

\* C12 (the claim as stated): the content filter that search_debates hands to
\* the vector store is the wire-format projection of the expression it was
\* given: wire names at every level, absent operators omitted (and no filter
\* when none was given).
C12_WireFormatFilter ==
    SearchRan =>
        tl_store[1].where_document =
            (IF tl_args[1].where_document = None THEN None
             ELSE Some(WireFormat(tl_args[1].where_document[1])))

\* What search_debates hands over instead: the same tree keyed by the Python
\* field names.
C12_FieldNameFilter ==
    SearchRan =>
        tl_store[1].where_document =
            (IF tl_args[1].where_document = None THEN None
             ELSE Some(FieldNameFormat(tl_args[1].where_document[1])))

\* The metadata flatten stores for the fully populated item 7 of debate 42.
SampleMetadata ==
    to_dict(from_overview_and_item(
        [id |-> Some(42), title |-> Some("Debate"), hrs_tag |-> Some("hs_Debate"),
         volume_no |-> None],
        FullItem(1)).obj)

\* A flat equality filter matches a document's metadata when every entry of
\* it is an entry of the metadata.
Matches(filter, metadata) ==
    \A k \in DOMAIN filter : k \in DOMAIN metadata /\ metadata[k] = filter[k]

\* The fields a validated DebateSearchParams has set.
SetFields(obj) == {n \in MetadataFields \ MetadataExcluded : obj[n] # None}

FilterGiven == SearchRan /\ tl_args[1].filter # None

\* C13 (the claim as stated): the metadata filter handed to the vector store
\* has exactly one entry per field the caller set, under the key flatten
\* stores that field under, with the caller's value; so a filter whose set
\* fields all equal the stored metadata of a document matches that document.
C13_FilterKeys ==
    FilterGiven =>
        LET obj == tl_parsed[1].obj[1].filter[1]
            handed == tl_store[1].filter
        IN
        /\ handed # None
        /\ DOMAIN handed[1] = {FieldAlias[n] : n \in SetFields(obj)}
        /\ \A n \in SetFields(obj) : handed[1][FieldAlias[n]] = obj[n][1]
        /\ (\A n \in SetFields(obj) :
                /\ FieldAlias[n] \in DOMAIN SampleMetadata
                /\ SampleMetadata[FieldAlias[n]] = obj[n][1])
              => Matches(handed[1], SampleMetadata)

\* What search_debates hands over instead: one entry per set field, under the
\* field's Python name.
C13_FilterByFieldName ==
    FilterGiven =>
        LET obj == tl_parsed[1].obj[1].filter[1]
            handed == tl_store[1].filter
        IN
        /\ handed # None
        /\ DOMAIN handed[1] = SetFields(obj)
        /\ \A n \in SetFields(obj) : handed[1][n] = obj[n][1]

Called == tl_args # None
PagedTools == CompanyTools \cup ParliamentTools

\* The page-size range each paged tool declares, as specified: items per page
\* 1..100 for the simple company search and the officer search, size 1..5000
\* for the advanced search, take 1..20 for interests, members and categories.
DeclaredPageMax ==
    [search_companies |-> 100, search_officers |-> 100,
     advanced_search_companies |-> 5000,
     get_interests |-> 20, get_members |-> 20, get_categories |-> 20]

\* The raw paging values of a parameter object respect the declared bounds
\* (a value left out takes its default, which does).
PagingInBounds(tool, params) ==
    /\ params.page # None =>
           (1 <= params.page[1] /\ params.page[1] <= DeclaredPageMax[tool])
    /\ params.start # None => params.start[1] >= 0

\* The arguments of the call are malformed in one of the ways the
\* specification lists: a paging value out of range, the required query text
\* (or the required parameter object) missing, a filter expression with a
\* node of zero or of several operators.
Malformed ==
    IF tl_tool = "search_debates"
    THEN \/ tl_args[1].query = None
         \/ /\ tl_args[1].where_document # None
            /\ ~WellFormed(tl_args[1].where_document[1])
    ELSE IF tl_args[1].params = None THEN ~ParamsSchema[tl_tool].optional
    ELSE \/ ~PagingInBounds(tl_tool, tl_args[1].params[1])
         \/ ParamsSchema[tl_tool].q /\ tl_args[1].params[1].q = None

\* C16: an invocation whose parameters are malformed is rejected before any
\* network or store call: it ends as a tool error, with no upstream GET
\* attempt and no vector-store operation.
C16_RejectedBeforeAnyCall ==
    (Called /\ Malformed) =>
        /\ tl_pc = "rejected"
        /\ tl_gets = <<>>
        /\ tl_store = <<>>

\* C16 witness: search_companies was called with 101 items per page and a
\* query, and was rejected without a GET.
C16_Witness ==
    /\ Called /\ tl_tool = "search_companies"
    /\ tl_args[1].params # None
    /\ tl_args[1].params[1].page = Some(101)
    /\ tl_args[1].params[1].q = Some("Tesla")
    /\ tl_args[1].params[1].start = None
    /\ tl_pc = "rejected"
    /\ tl_gets = <<>>

\* C17: a parameter object of a paged tool (its query text, where it has one,
\* being given) is valid exactly when its page size is within 1 and the
\* declared maximum (100, 5000 or 20) and its offset is at least 0.
C17_PagingBounds ==
    (/\ Called /\ tl_tool \in PagedTools
     /\ tl_args[1].params # None
     /\ ParamsSchema[tl_tool].q =>
            tl_args[1].params[1].q \notin {None, Some("None")})
    => (tl_parsed[1].errors = {}
            <=> PagingInBounds(tl_tool, tl_args[1].params[1]))

\* C17 witness: the advanced search was called with size 5000 and offset 0,
\* was accepted and sent its GET with them.
C17_Witness ==
    /\ Called /\ tl_tool = "advanced_search_companies"
    /\ tl_args[1].params # None
    /\ tl_args[1].params[1].page = Some(5000)
    /\ tl_args[1].params[1].start = Some(0)
    /\ tl_parsed[1].errors = {}
    /\ tl_gets # <<>>
    /\ tl_gets[1].params # None
    /\ tl_gets[1].params[1]["size"] = "5000"

\* C20: the companies client is constructed only with a key that is present
\* and not empty, and then uses it as Basic-auth username with the empty
\* password; with the key absent or empty, construction fails with an error,
\* no client exists and no request is issued; every request of a company tool
\* carries the credential.
C20_ClientRequiresKey ==
    /\ co_client # None =>
        /\ co_env_key \notin {None, Some("")}
        /\ co_client[1].auth = [username |-> co_env_key[1], password |-> ""]
    /\ tl_pc = "down" =>
        /\ co_env_key \in {None, Some("")}
        /\ co_client = None
        /\ tl_result = Some("ValueError")
    /\ co_env_key \in {None, Some("")} =>
        /\ co_client = None
        /\ tl_tool \notin CompanyTools
        /\ \A i \in 1..Len(tl_gets) : tl_gets[i].auth = None
    /\ tl_tool \in CompanyTools =>
        /\ co_client # None
        /\ \A i \in 1..Len(tl_gets) :
            tl_gets[i].auth = Some([username |-> co_env_key[1], password |-> ""])

\* C20 witness: with the key "k3y" in the environment the client was
\* constructed, and search_officers sent its request under that credential.
C20_Witness ==
    /\ co_env_key = Some("k3y")
    /\ co_client # None
    /\ tl_tool = "search_officers"
    /\ tl_gets # <<>>
    /\ tl_gets[1].auth = Some([username |-> "k3y", password |-> ""])

(***************************************************************************)
(* PART 5.  get_member_contribution_summary and the background task        *)
(* _update_vector_store that it creates and does not await.                *)
(***************************************************************************)

\* Bound: the contributions of one summary page.
MaxContributions == 2

\* The items of a summary: a wrapper whose value is missing, or a
\* contribution whose debateWebsiteId is missing or names a debate.
ContributionInputs ==
    {[value |-> None],
     [value |-> Some([debate_website_id |-> None])],
     [value |-> Some([debate_website_id |-> Some("A")])],
     [value |-> Some([debate_website_id |-> Some("B")])]}

\* What client.get_member_contribution_summary can deliver: an exception, or
\* a result whose items are missing or a list of contributions.
SummaryInputs ==
    {[exc |-> e, items |-> None] : e \in {"RetryError", "HTTPStatusError"}}
        \cup {[exc |-> "", items |-> None]}
        \cup UNION {{[exc |-> "", items |-> Some(l)] :
                        l \in [1..n -> ContributionInputs]} : n \in 0..MaxContributions}

\* `[item.value.debate_website_id for item in result.items]`
DebateIds(summary) ==
    IF summary.items = None THEN [exc |-> "TypeError", ids |-> <<>>]
    ELSE LET items == summary.items[1] IN
         IF \E i \in 1..Len(items) : items[i].value = None
         THEN [exc |-> "AttributeError", ids |-> <<>>]
         ELSE [exc |-> "",
               ids |-> [i \in 1..Len(items) |-> items[i].value[1].debate_website_id]]

\* The debates a fetch inside the task can deliver: one that flattens to a
\* document, one with nothing to index, one whose item lacks its tag, one
\* whose overview is missing.
TaskDebates ==
    LET ov == Some([id |-> Some(42), title |-> Some("Debate"),
                    hrs_tag |-> Some("hs_Debate"), volume_no |-> None])
        debate(o, its) == [overview |-> o, navigator |-> <<>>, items |-> its,
                           child_debates |-> <<>>]
    IN {debate(ov, <<FullItem(1)>>),
        debate(ov, <<>>),
        debate(ov, <<[FullItem(1) EXCEPT !.hrs_tag = None]>>),
        debate(None, <<FullItem(1)>>)}

\* `except Exception`: the exceptions of the loop body are all subclasses of
\* Exception.
ExceptRetryErrorOnly(exc) == exc = "RetryError"
ExceptFetchErrorsOnly(exc) == exc \in {"RetryError", "HTTPStatusError"}
ExceptException(exc) ==
    exc \in {"RetryError", "HTTPStatusError", "ValidationError", "AttributeError",
             "ChromaError"}

\* The body of the loop of _update_vector_store for one debate id:
\* loader.aload (the fetch, then debate_to_documents), then
\* vectorstore.add_documents.
UpdateDebate(fetch_exc, debate, add_ok) ==
    IF fetch_exc # "" THEN Raised(fetch_exc)
    ELSE LET flat == debate_to_documents(debate) IN
         IF flat.exc # "" THEN flat
         ELSE IF ~add_ok THEN Raised("ChromaError")
         ELSE flat

InitIndex ==
    /\ ix_pc = "await"
    /\ ix_result = None
    /\ ix_task = None
    /\ ix_log = <<>>
    /\ ix_store = <<>>
    /\ RetryIdle
    /\ DebateIdle
    /\ FilterIdle
    /\ ToolIdle
    /\ SchemaIdle
    /\ EnvelopeIdle
    /\ OverlapIdle

\* The handler of get_member_contribution_summary from the moment the fetch
\* of the summary completes: the debate ids are read, the task is created and
\* the result returned, with no suspension in between.
GetMemberContributionSummary ==
    /\ ix_pc = "await"
    /\ \E summary \in SummaryInputs :
        IF summary.exc # ""
        THEN /\ ix_pc' = "raised"
             /\ ix_result' = Some([exc |-> summary.exc, items |-> None])
             /\ UNCHANGED ix_task
        ELSE LET debate_ids == DebateIds(summary) IN
             IF debate_ids.exc # ""
             THEN /\ ix_pc' = "raised"
                  /\ ix_result' = Some([exc |-> debate_ids.exc, items |-> None])
                  /\ UNCHANGED ix_task
             ELSE /\ ix_pc' = "returned"
                  /\ ix_result' = Some(summary)
                  /\ ix_task' = Some([ids |-> debate_ids.ids, i |-> 1,
                                      state |-> "scheduled", escaped |-> None])
    /\ UNCHANGED <<ix_log, ix_store>>

\* One iteration of the task's loop, which the event loop runs only after the
\* handler has returned.
UpdateVectorStoreStep ==
    /\ ix_task # None
    /\ ix_task[1].state \in {"scheduled", "running"}
    /\ ix_task[1].i <= Len(ix_task[1].ids)
    /\ \E fetch_exc \in {"", "RetryError", "HTTPStatusError", "ValidationError"},
          debate \in TaskDebates, add_ok \in BOOLEAN :
        LET debate_id == ix_task[1].ids[ix_task[1].i]
            out == UpdateDebate(fetch_exc, debate, add_ok)
        IN
        /\ debate_id = None => fetch_exc # ""
        /\ IF out.exc = ""
           THEN /\ ix_store' = ix_store \o out.docs
                /\ ix_log' = Append(ix_log, [level |-> "info", id |-> debate_id,
                                             exc |-> "", n |-> Len(out.docs)])
                /\ ix_task' = Some([ix_task[1] EXCEPT !.i = @ + 1, !.state = "running"])
           ELSE IF ExceptException(out.exc)
           THEN /\ ix_log' = Append(ix_log, [level |-> "error", id |-> debate_id,
                                             exc |-> out.exc, n |-> 0])
                /\ ix_task' = Some([ix_task[1] EXCEPT !.i = @ + 1, !.state = "running"])
                /\ UNCHANGED ix_store
           ELSE /\ ix_task' = Some([ix_task[1] EXCEPT !.state = "failed",
                                                      !.escaped = Some(out.exc)])
                /\ UNCHANGED <<ix_log, ix_store>>
    /\ UNCHANGED <<ix_pc, ix_result>>

\* The loop is over: the task ends.
UpdateVectorStoreEnd ==
    /\ ix_task # None
    /\ ix_task[1].state \in {"scheduled", "running"}
    /\ ix_task[1].i > Len(ix_task[1].ids)
    /\ ix_task' = Some([ix_task[1] EXCEPT !.state = "done"])
    /\ UNCHANGED <<ix_pc, ix_result, ix_log, ix_store>>

NextIndex ==
    \/ GetMemberContributionSummary
        /\ UNCHANGED <<retry_vars, debate_vars, filter_vars, tool_vars, schema_vars, envelope_vars, overlap_vars>>
    \/ UpdateVectorStoreStep
        /\ UNCHANGED <<retry_vars, debate_vars, filter_vars, tool_vars, schema_vars, envelope_vars, overlap_vars>>
    \/ UpdateVectorStoreEnd
        /\ UNCHANGED <<retry_vars, debate_vars, filter_vars, tool_vars, schema_vars, envelope_vars, overlap_vars>>

SpecIndex == InitIndex /\ [][NextIndex]_vars

\* The state of the call and of its task: the task exists only once the call
\* has returned the contribution list it was created from; no exception has
\* escaped it; and each debate it has been through left one log record, an
\* error record exactly when the debate failed.
TaskIsolated ==
    /\ ix_task # None =>
        /\ ix_pc = "returned"
        /\ ix_result # None /\ ix_result[1].exc = ""
        /\ DebateIds(ix_result[1]).ids = ix_task[1].ids
        /\ ix_task[1].escaped = None
        /\ ix_task[1].state # "failed"
        /\ Len(ix_log) = ix_task[1].i - 1
        /\ \A j \in 1..Len(ix_log) :
            /\ ix_log[j].id = ix_task[1].ids[j]
            /\ ix_log[j].level \in {"info", "error"}
            /\ ix_log[j].level = "error" <=> ix_log[j].exc # ""
    /\ ix_task = None => (ix_log = <<>> /\ ix_store = <<>>)

\* C14: a failure inside the background task (fetch of a debate, flatten,
\* add to the store) is logged and leaves the triggering call alone: the call
\* has returned the contribution list before the task runs, no exception
\* escapes the task, every failed debate has its error record, and no step
\* taken after the call returned changes what it returned.
C14_IndexingFailureIsolated ==
    /\ []TaskIsolated
    /\ [][ix_pc = "returned" => (ix_pc' = ix_pc /\ ix_result' = ix_result)]_vars

\* C14 witness: the call returned two contributions; the task has ended after
\* failing on the first debate and indexing the second.
C14_Witness ==
    /\ ix_pc = "returned"
    /\ ix_task # None /\ ix_task[1].state = "done"
    /\ Len(ix_task[1].ids) = 2
    /\ Len(ix_log) = 2
    /\ ix_log[1].level = "error" /\ ix_log[1].exc = "AttributeError"
    /\ ix_log[2].level = "info"
    /\ Len(ix_store) = 1
    /\ Len(ix_result[1].items[1]) = 2

\* The background task with the fairness of the event loop: a task that can
\* take a step is eventually given it.
SpecIndexFair ==
    /\ SpecIndex
    /\ WF_index_vars(UpdateVectorStoreStep)
    /\ WF_index_vars(UpdateVectorStoreEnd)

\* The task has attempted the first i - 1 ids of its list, each once and in
\* list order (an attempt leaves one log record, info or error), has not
\* raised, and has ended only after the last id.
AttemptedInOrder ==
    ix_task # None =>
        LET task == ix_task[1] IN
        /\ Len(ix_log) = task.i - 1
        /\ Len(ix_log) <= Len(task.ids)
        /\ \A j \in 1..Len(ix_log) : ix_log[j].id = task.ids[j]
        /\ task.state # "failed" /\ task.escaped = None
        /\ task.state = "done" => Len(ix_log) = Len(task.ids)

\* C24: the background task attempts every id of its list exactly once, in
\* list order; a failure while fetching, flattening or adding the documents of
\* one id does not prevent the attempts for the ids after it; and the task
\* always terminates after the last id without raising.
C24_EveryIdAttempted ==
    /\ []AttemptedInOrder
    /\ [][(ix_task # None /\ ix_log' # ix_log) =>
             /\ Len(ix_log') = Len(ix_log) + 1
             /\ SubSeq(ix_log', 1, Len(ix_log)) = ix_log
             /\ ix_task'[1].ids = ix_task[1].ids]_vars
    /\ (ix_task # None) ~> (ix_task # None /\ ix_task[1].state = "done")

\* C24 witness: the task ended after two ids; the first failed in flattening,
\* the second was attempted all the same and failed in the add.
C24_Witness ==
    /\ ix_task # None /\ ix_task[1].state = "done"
    /\ Len(ix_task[1].ids) = 2
    /\ Len(ix_log) = 2
    /\ ix_log[1].exc = "ValidationError"
    /\ ix_log[2].exc = "ChromaError"
    /\ ix_log[2].id = ix_task[1].ids[2]

\* C25 (the claim as stated): get_member_contribution_summary returns the
\* upstream envelope for every upstream response that passes schema
\* validation, also one whose items are absent or hold an item without value:
\* reading the debate ids and scheduling the task never fail the call.
C25_SummaryAlwaysReturned ==
    (ix_result # None /\ ix_result[1].exc \notin {"RetryError", "HTTPStatusError"})
        => (ix_pc = "returned" /\ ix_result[1].exc = "")

\* C25 (what the code does): the call fails with TypeError when the items are
\* absent and with AttributeError when an item has no value; it returns the
\* envelope in every other case that the fetch succeeded.
C25_FailsOnAbsentItems ==
    ix_result # None =>
        /\ ix_pc = "raised" <=> ix_result[1].exc # ""
        /\ ix_pc = "returned" =>
               /\ ix_result[1].items # None
               /\ \A i \in 1..Len(ix_result[1].items[1]) :
                      ix_result[1].items[1][i].value # None
        /\ ix_result[1].exc \in
               {"", "RetryError", "HTTPStatusError", "TypeError", "AttributeError"}

(***************************************************************************)
(* PART 6.  The before-validators of the schemas, on one field value.      *)
(*                                                                         *)
(* A raw value is a record: type "none", "int" (with n) or "str" (with     *)
(* chars, the text as a sequence of one-character strings, so that its     *)
(* length and its hyphens can be counted).                                 *)
(***************************************************************************)

NoneValue == [type |-> "none", chars |-> <<>>, n |-> 0]
StrValue(chars) == [type |-> "str", chars |-> chars, n |-> 0]
IntValue(n) == [type |-> "int", chars |-> <<>>, n |-> n]

RECURSIVE Join(_)
Join(chars) == IF chars = <<>> THEN "" ELSE Head(chars) \o Join(Tail(chars))

DateOnly == <<"2", "0", "2", "4", "-", "0", "3", "-", "0", "5">>
Midnight == <<"T", "0", "0", ":", "0", "0", ":", "0", "0">>
Afternoon == <<"T", "1", "4", ":", "3", "0", ":", "0", "0">>
SlashDate == <<"2", "0", "2", "4", "/", "0", "3", "/", "0", "5">>
DayFirst == <<"0", "5", "-", "0", "3", "-", "2", "0", "2", "4">>
ShortDate == <<"2", "0", "2", "4", "-", "3", "-", "5">>
ThreeHyphens == <<"2", "0", "2", "4", "-", "0", "3", "-", "-", "5">>
NoneText == <<"N", "o", "n", "e">>
NoneLower == <<"n", "o", "n", "e">>
Word == <<"L", "o", "r", "d", "s">>

\* The raw values a field can be given.
ValueInputs ==
    {NoneValue, IntValue(17)}
        \cup {StrValue(c) : c \in {DateOnly, DateOnly \o Midnight, DateOnly \o Afternoon,
                                   SlashDate, DayFirst, ShortDate, ThreeHyphens,
                                   NoneText, NoneLower, Word, <<>>}}

\* Fields of the schemas: the base class of the schema (BaseAPIModel carries
\* str_none_to_none, BaseParams derives from pydantic's BaseModel directly),
\* the field's type, and whether the schema's parse_date_string validator
\* names the field.
SchemaFields ==
    {[schema |-> "DebateOverview", field |-> "date", base |-> "BaseAPIModel",
      type |-> "datetime", parse_date |-> TRUE],
     [schema |-> "DebateOverview", field |-> "content_last_updated",
      base |-> "BaseAPIModel", type |-> "datetime", parse_date |-> TRUE],
     [schema |-> "DebateOverview", field |-> "title", base |-> "BaseAPIModel",
      type |-> "str", parse_date |-> FALSE],
     [schema |-> "DebateOverview", field |-> "id", base |-> "BaseAPIModel",
      type |-> "int", parse_date |-> FALSE],
     [schema |-> "DebateItem", field |-> "timecode", base |-> "BaseAPIModel",
      type |-> "datetime", parse_date |-> TRUE],
     [schema |-> "DebateItem", field |-> "value", base |-> "BaseAPIModel",
      type |-> "str", parse_date |-> FALSE],
     [schema |-> "SectionTreeItem", field |-> "timecode", base |-> "BaseAPIModel",
      type |-> "datetime", parse_date |-> FALSE],
     [schema |-> "WhereDocument", field |-> "contains", base |-> "BaseAPIModel",
      type |-> "str", parse_date |-> FALSE],
     [schema |-> "CompanySearchParams", field |-> "q", base |-> "BaseAPIModel",
      type |-> "str", parse_date |-> FALSE],
     [schema |-> "CompanySearchParams", field |-> "items_per_page",
      base |-> "BaseAPIModel", type |-> "int", parse_date |-> FALSE],
     [schema |-> "MemberSearchParams", field |-> "name", base |-> "BaseParams",
      type |-> "str", parse_date |-> FALSE],
     [schema |-> "InterestsParams", field |-> "member_id", base |-> "BaseParams",
      type |-> "int", parse_date |-> FALSE],
     [schema |-> "BaseParams", field |-> "take", base |-> "BaseParams",
      type |-> "int", parse_date |-> FALSE]}

\* BaseAPIModel.str_none_to_none on a raw value: only a str can equal "None".
NoneSentinel(value) ==
    IF value.type = "str"
       /\ str_none_to_none("str", Some(Join(value.chars))) = None
    THEN NoneValue
    ELSE value

\* value.count("-")
RECURSIVE Count(_, _)
Count(chars, c) ==
    IF chars = <<>> THEN 0
    ELSE (IF Head(chars) = c THEN 1 ELSE 0) + Count(Tail(chars), c)

\* parse_date_string of DebateOverview and DebateItem.
WidenAnyTenChars(value) ==
    IF value.type = "none" THEN value
    ELSE IF value.type = "str" /\ Len(value.chars) = 10
    THEN StrValue(value.chars \o Midnight)
    ELSE value
parse_date_string(value) ==
    IF value.type = "none" THEN value
    ELSE IF value.type = "str" /\ Len(value.chars) = 10 /\ Count(value.chars, "-") = 2
    THEN StrValue(value.chars \o Midnight)
    ELSE value

\* The datetime parsing of the schema library on a str: a full timestamp
\* YYYY-MM-DDTHH:MM:SS is taken as it is, a date YYYY-MM-DD as midnight of that
\* day, anything else is an error.  The parsed value is written as its ISO
\* text.
Digits == {"0", "1", "2", "3", "4", "5", "6", "7", "8", "9"}
IsDate(chars) ==
    /\ Len(chars) = 10
    /\ chars[5] = "-" /\ chars[8] = "-"
    /\ \A i \in {1, 2, 3, 4, 6, 7, 9, 10} : chars[i] \in Digits
IsDateTime(chars) ==
    /\ Len(chars) = 19
    /\ IsDate(SubSeq(chars, 1, 10))
    /\ chars[11] = "T" /\ chars[14] = ":" /\ chars[17] = ":"
    /\ \A i \in {12, 13, 15, 16, 18, 19} : chars[i] \in Digits
ParseDatetime(value) ==
    IF value.type = "none" THEN [ok |-> TRUE, iso |-> <<>>]
    ELSE IF value.type = "int" THEN [ok |-> TRUE, iso |-> <<"@", ToString(value.n)>>]
    ELSE IF IsDateTime(value.chars) THEN [ok |-> TRUE, iso |-> value.chars]
    ELSE IF IsDate(value.chars) THEN [ok |-> TRUE, iso |-> value.chars \o Midnight]
    ELSE [ok |-> FALSE, iso |-> <<>>]

\* What validation makes of a raw value given for a field: the value after
\* str_none_to_none (where the schema has it), after parse_date_string (where
\* it names the field), and, for a timestamp field, the parsed value.
FieldValidate(f, value) ==
    LET after_none == IF f.base = "BaseAPIModel" THEN NoneSentinel(value) ELSE value
        before == IF f.parse_date THEN parse_date_string(after_none) ELSE after_none
    IN [after_none |-> after_none,
        before |-> before,
        parsed |-> IF f.type = "datetime" THEN ParseDatetime(before)
                   ELSE [ok |-> TRUE, iso |-> <<>>]]

InitSchema ==
    /\ sv_input \in {Some([f |-> f, value |-> v]) : f \in SchemaFields, v \in ValueInputs}
    /\ sv_output = None
    /\ RetryIdle
    /\ DebateIdle
    /\ FilterIdle
    /\ ToolIdle
    /\ IndexIdle
    /\ EnvelopeIdle
    /\ OverlapIdle

ValidateField ==
    /\ sv_output = None
    /\ sv_output' = Some(FieldValidate(sv_input[1].f, sv_input[1].value))
    /\ UNCHANGED sv_input

NextSchema ==
    ValidateField
        /\ UNCHANGED <<retry_vars, debate_vars, filter_vars, tool_vars, index_vars, envelope_vars, overlap_vars>>

SpecSchema == InitSchema /\ [][NextSchema]_vars

Validated18 == sv_output # None
NoneString == StrValue(NoneText)

\* C18 (as stated): for every field of every schema, request-parameter and
\* response schemas alike, the value "None" is normalized to an absent value
\* before type coercion, and every other value passes this step unchanged.
C18_NoneNormalizedEverywhere ==
    Validated18 =>
        /\ sv_input[1].value = NoneString => sv_output[1].after_none = NoneValue
        /\ sv_input[1].value # NoneString => sv_output[1].after_none = sv_input[1].value

\* C18 (what the code does): the normalization holds for the fields of the
\* schemas that derive from BaseAPIModel; the schemas that derive from
\* BaseParams keep "None" as the text it is.
C18_NoneNormalizedInApiModels ==
    Validated18 =>
        /\ (sv_input[1].value = NoneString /\ sv_input[1].f.base = "BaseAPIModel")
               => sv_output[1].after_none = NoneValue
        /\ (sv_input[1].value = NoneString /\ sv_input[1].f.base = "BaseParams")
               => sv_output[1].after_none = NoneString
        /\ sv_input[1].value # NoneString => sv_output[1].after_none = sv_input[1].value

\* The timestamp-typed fields of the debate schemas.
DebateTimestampFields ==
    {f \in SchemaFields :
        f.type = "datetime" /\ f.schema \in {"DebateOverview", "DebateItem", "SectionTreeItem"}}

\* A string of exactly 10 characters holding exactly two hyphens.
DateOnlyShaped(value) ==
    value.type = "str" /\ Len(value.chars) = 10 /\ Count(value.chars, "-") = 2

Widened(value) == StrValue(value.chars \o Midnight)

\* C19 (as stated): for every timestamp-typed field of the debate schemas a
\* string of 10 characters with two hyphens is widened by "T00:00:00" before
\* parsing, so "2024-03-05" gives the value of "2024-03-05T00:00:00"; any other
\* input is left unmodified; widening a widened string changes nothing.
C19_DateWideningEveryField ==
    (Validated18 /\ sv_input[1].f \in DebateTimestampFields) =>
        LET f == sv_input[1].f
            out == sv_output[1]
        IN /\ DateOnlyShaped(out.after_none) => out.before = Widened(out.after_none)
           /\ ~DateOnlyShaped(out.after_none) => out.before = out.after_none
           /\ sv_input[1].value = StrValue(DateOnly)
                  => /\ out.parsed.ok
                     /\ out.parsed = FieldValidate(f, StrValue(DateOnly \o Midnight)).parsed
           /\ parse_date_string(parse_date_string(sv_input[1].value))
                  = parse_date_string(sv_input[1].value)

\* C19 (amended): the widening is a validator of the overview date, the
\* overview contentLastUpdated and the item timecode; the navigator timecode
\* has no such validator and its value reaches the parsing as given.  On all
\* four fields "2024-03-05" still gives the value of "2024-03-05T00:00:00";
\* any other input is left unmodified; widening a widened string changes
\* nothing.
C19_DateWidening ==
    (Validated18 /\ sv_input[1].f \in DebateTimestampFields) =>
        LET f == sv_input[1].f
            out == sv_output[1]
        IN /\ (f.parse_date /\ DateOnlyShaped(out.after_none))
                  => out.before = Widened(out.after_none)
           /\ (~f.parse_date \/ ~DateOnlyShaped(out.after_none))
                  => out.before = out.after_none
           /\ f.parse_date <=> f.schema # "SectionTreeItem"
           /\ sv_input[1].value = StrValue(DateOnly)
                  => /\ out.parsed.ok
                     /\ out.parsed = FieldValidate(f, StrValue(DateOnly \o Midnight)).parsed
           /\ parse_date_string(parse_date_string(sv_input[1].value))
                  = parse_date_string(sv_input[1].value)

C19_Witness ==
    /\ Validated18
    /\ sv_input[1].f.schema = "DebateItem" /\ sv_input[1].f.field = "timecode"
    /\ sv_input[1].value = StrValue(DateOnly)
    /\ sv_output[1].before = StrValue(DateOnly \o Midnight)
    /\ sv_output[1].parsed = [ok |-> TRUE, iso |-> DateOnly \o Midnight]

(***************************************************************************)
(* PART 7.  The paginated response envelopes: what a client method makes   *)
(* of an upstream body with `Model.model_validate(response)`.              *)
(*                                                                         *)
(* A body is a record of the raw values under the paging keys and of the   *)
(* item list: a key can be absent, and a value null, an integer or text;   *)
(* the items are absent, null or a list, of which the model keeps the      *)
(* length.                                                                 *)
(***************************************************************************)

\* Bound: the items of one response page.
MaxEnvelopeItems == 3

AbsentKey == [type |-> "absent", chars |-> <<>>, n |-> 0]

\* The paginated response schemas: the keys of the offset and of the page
\* size, their defaults (none where the field is required), and whether the
\* item list may be null.
EnvelopeSchemas ==
    {[schema |-> "ApiLinkedSearchResult", skip |-> "skip", take |-> "take",
      skip_default |-> Some(0), take_default |-> Some(20), items_optional |-> TRUE],
     [schema |-> "MembersServiceSearchResult", skip |-> "skip", take |-> "take",
      skip_default |-> Some(0), take_default |-> Some(20), items_optional |-> TRUE],
     [schema |-> "CompanySearchResponse", skip |-> "start_index",
      take |-> "items_per_page",
      skip_default |-> None, take_default |-> None, items_optional |-> FALSE]}

\* The bodies upstream can send.
SkipInputs == {AbsentKey, NoneValue, IntValue(-1), IntValue(0), IntValue(5)}
TakeInputs == {AbsentKey, IntValue(1), IntValue(2), StrValue(NoneText)}
ItemsInputs ==
    {[type |-> "absent", n |-> 0], [type |-> "null", n |-> 0]}
        \cup {[type |-> "list", n |-> n] : n \in 0..MaxEnvelopeItems}

\* An `int` field with or without default: an absent key gives the default
\* (an error when there is none); a value goes through str_none_to_none and
\* must then be an integer.
IntField(raw, default) ==
    IF raw.type = "absent"
    THEN (IF default = None THEN [ok |-> FALSE, n |-> 0]
          ELSE [ok |-> TRUE, n |-> default[1]])
    ELSE IF NoneSentinel(raw).type = "int" THEN [ok |-> TRUE, n |-> raw.n]
    ELSE [ok |-> FALSE, n |-> 0]

\* The items field: list[T] | None = None, or list[T] with default [].
ItemsField(raw, optional) ==
    IF raw.type = "list" THEN [ok |-> TRUE, present |-> TRUE, n |-> raw.n]
    ELSE IF raw.type = "absent" THEN [ok |-> TRUE, present |-> ~optional, n |-> 0]
    ELSE [ok |-> optional, present |-> FALSE, n |-> 0]

\* Model.model_validate(response): the envelope, or ValidationError.  No field
\* carries a constraint (ge, le) and no validator relates the fields.
EnvelopeValidate(sch, body) ==
    LET skip == IntField(body.skip, sch.skip_default)
        take == IntField(body.take, sch.take_default)
        items == ItemsField(body.items, sch.items_optional)
    IN IF skip.ok /\ take.ok /\ items.ok
       THEN [exc |-> "", skip |-> skip.n, take |-> take.n,
             items_present |-> items.present, items |-> items.n]
       ELSE [exc |-> "ValidationError", skip |-> 0, take |-> 0,
             items_present |-> FALSE, items |-> 0]

InitEnvelope ==
    /\ en_body \in {Some([sch |-> sch, skip |-> sk, take |-> tk, items |-> it]) :
                       sch \in EnvelopeSchemas, sk \in SkipInputs, tk \in TakeInputs,
                       it \in ItemsInputs}
    /\ en_envelope = None
    /\ RetryIdle
    /\ DebateIdle
    /\ FilterIdle
    /\ ToolIdle
    /\ IndexIdle
    /\ SchemaIdle
    /\ OverlapIdle

\* The last line of a client method: the body that _make_request returned is
\* validated and the envelope returned to the caller.
ValidateEnvelope ==
    /\ en_envelope = None
    /\ en_envelope' = Some(EnvelopeValidate(en_body[1].sch, en_body[1]))
    /\ UNCHANGED en_body

NextEnvelope ==
    ValidateEnvelope
        /\ UNCHANGED <<retry_vars, debate_vars, filter_vars, tool_vars, index_vars,
                       schema_vars, overlap_vars>>

SpecEnvelope == InitEnvelope /\ [][NextEnvelope]_vars

EnvelopeReturned == en_envelope # None /\ en_envelope[1].exc = ""

\* C21 (the claim as stated): every envelope a client method returns has at
\* most take (itemsPerPage) items and a skip (startIndex) >= 0, for every
\* upstream body that the schema accepts.
C21_EnvelopeInvariant ==
    EnvelopeReturned =>
        /\ en_envelope[1].items <= en_envelope[1].take
        /\ en_envelope[1].skip >= 0

\* C21 (what the code does): the envelope returned carries the integers and
\* the items of the body as they came, the defaults where a key was absent.
C21_EnvelopeAsReceived ==
    EnvelopeReturned =>
        LET body == en_body[1] IN
        /\ body.skip.type = "int" => en_envelope[1].skip = body.skip.n
        /\ body.take.type = "int" => en_envelope[1].take = body.take.n
        /\ body.items.type = "list" => en_envelope[1].items = body.items.n
        /\ body.skip.type \in {"int", "absent"}
        /\ body.take.type \in {"int", "absent"}

(***************************************************************************)
(* PART 8.  Indexings of debates that overlap: two indexings, each a       *)
(* background task _update_vector_store over a list of debate ids or a     *)
(* get_debate call for one id, share the module-level loader and           *)
(* vectorstore and run on one event loop.  An indexing suspends only in    *)
(* the fetch of a debate; from the fetch's completion through flatten to   *)
(* vectorstore.add_documents nothing suspends.                             *)
(***************************************************************************)

Indexings == {"first", "second"}
DebateIdInputs == {"A", "B"}

\* The debate upstream holds under each id: "A" with two items that qualify,
\* "B" with one item of its own and a child debate with one.
UpstreamDebate(debate_id) ==
    LET ov(id) == Some([id |-> Some(id), title |-> Some("Debate"),
                        hrs_tag |-> Some("hs_Debate"), volume_no |-> None])
        debate(id, its, ch) == [overview |-> ov(id), navigator |-> <<>>,
                                items |-> its, child_debates |-> ch]
    IN IF debate_id = "A"
       THEN debate(42, <<FullItem(1), FullItem(2)>>, <<>>)
       ELSE debate(43, <<FullItem(1)>>, <<debate(431, <<FullItem(1)>>, <<>>)>>)

\* What an indexing can be: a get_debate call, or a task over a non-empty
\* list of debate ids of a contribution summary.
IndexingInputs ==
    {[kind |-> "get_debate", ids |-> <<id>>] : id \in DebateIdInputs}
        \cup UNION {{[kind |-> "_update_vector_store", ids |-> l] :
                        l \in [1..n -> DebateIdInputs]} : n \in 1..MaxContributions}

\* vectorstore.add_documents(documents): one invocation, with the documents
\* it was given; nothing looks at what was added before.
AddUnlessIndexed(adds, by, debate_id, docs) ==
    IF \E k \in 1..Len(adds) : adds[k].debate_id = debate_id THEN adds
    ELSE Append(adds, [by |-> by, debate_id |-> debate_id, documents |-> docs])
add_documents(adds, by, debate_id, docs) ==
    Append(adds, [by |-> by, debate_id |-> debate_id, documents |-> docs])

InitOverlap ==
    /\ ov_tasks \in {[t \in Indexings |->
                        [kind |-> f[t].kind, ids |-> f[t].ids, i |-> 1,
                         pc |-> "ready", outcomes |-> <<>>]] :
                     f \in [Indexings -> IndexingInputs]}
    /\ ov_adds = <<>>
    /\ RetryIdle
    /\ DebateIdle
    /\ FilterIdle
    /\ ToolIdle
    /\ IndexIdle
    /\ SchemaIdle
    /\ EnvelopeIdle

\* `await client.get_debate(...)`: the indexing sends the request for its
\* next debate and suspends.
FetchDebate(t) ==
    /\ ov_tasks[t].pc = "ready"
    /\ ov_tasks[t].i <= Len(ov_tasks[t].ids)
    /\ ov_tasks' = [ov_tasks EXCEPT ![t].pc = "fetching"]
    /\ UNCHANGED ov_adds

\* The fetch completes.  When it delivered the debate, the indexing flattens
\* it and hands the documents to vectorstore.add_documents; when it raised,
\* a task logs the error and goes on to its next id, and a get_debate call
\* ends with the exception.
IndexDebate(t) ==
    /\ ov_tasks[t].pc = "fetching"
    /\ \E fetched \in BOOLEAN :
        LET debate_id == ov_tasks[t].ids[ov_tasks[t].i]
            flat == debate_to_documents(UpstreamDebate(debate_id))
        IN
        /\ ov_tasks' = [ov_tasks EXCEPT
                ![t].pc = "ready",
                ![t].i = @ + 1,
                ![t].outcomes = Append(@, IF fetched THEN "added" ELSE "failed")]
        /\ ov_adds' = IF fetched
                      THEN add_documents(ov_adds, t, debate_id, flat.docs)
                      ELSE ov_adds

NextOverlap ==
    \/ \E t \in Indexings : FetchDebate(t)
        /\ UNCHANGED <<retry_vars, debate_vars, filter_vars, tool_vars, index_vars,
                       schema_vars, envelope_vars>>
    \/ \E t \in Indexings : IndexDebate(t)
        /\ UNCHANGED <<retry_vars, debate_vars, filter_vars, tool_vars, index_vars,
                       schema_vars, envelope_vars>>

SpecOverlap == InitOverlap /\ [][NextOverlap]_vars

\* The add_documents invocations made by indexing t, and the debate ids of
\* the fetches of t that delivered, both in order.
AddsBy(t) == SelectSeq(ov_adds, LAMBDA a : a.by = t)
Delivered(t) ==
    LET pos == {j \in 1..Len(ov_tasks[t].outcomes) : ov_tasks[t].outcomes[j] = "added"}
        RECURSIVE upto(_)
        upto(j) == IF j = 0 THEN <<>>
                   ELSE upto(j - 1) \o (IF j \in pos THEN <<ov_tasks[t].ids[j]>> ELSE <<>>)
    IN upto(Len(ov_tasks[t].outcomes))

\* C22: no deduplication, locking or fencing of indexing.  Under every
\* interleaving of two indexings (tasks with overlapping ids, get_debate
\* calls, one after the other or concurrently), add_documents is invoked once
\* per indexing of a debate that was fetched, in the order of the indexing's
\* ids, each time with the full flattened document sequence of that debate:
\* two indexings of one debate id hand over the same documents, same ids,
\* same order.
C22_NoDeduplication ==
    /\ \A t \in Indexings :
        /\ Len(AddsBy(t)) = Len(Delivered(t))
        /\ \A k \in 1..Len(AddsBy(t)) : AddsBy(t)[k].debate_id = Delivered(t)[k]
    /\ \A k \in 1..Len(ov_adds) :
        /\ ov_adds[k].documents = debate_to_documents(UpstreamDebate(ov_adds[k].debate_id)).docs
        /\ Len(ov_adds[k].documents) = 2
    /\ \A k, l \in 1..Len(ov_adds) :
        ov_adds[k].debate_id = ov_adds[l].debate_id =>
            [d \in 1..Len(ov_adds[k].documents) |-> ov_adds[k].documents[d].id]
                = [d \in 1..Len(ov_adds[l].documents) |-> ov_adds[l].documents[d].id]

\* C22 witness: two tasks were given the same debate id; the second added the
\* debate's documents while the first, which had added them before, was
\* still running and awaiting its next fetch: the same documents were handed
\* over twice.
C22_Witness ==
    /\ ov_tasks["first"].kind = "_update_vector_store"
    /\ ov_tasks["second"].kind = "_update_vector_store"
    /\ Len(ov_adds) = 2
    /\ ov_adds[1].by = "first" /\ ov_adds[2].by = "second"
    /\ ov_adds[1].debate_id = "A" /\ ov_adds[2].debate_id = "A"
    /\ ov_adds[1].documents = ov_adds[2].documents
    /\ ov_adds[1].documents[1].id = "42-7"
    /\ ov_tasks["first"].pc = "fetching"

====
